---- MODULE Spec2Model ----
(***************************************************************************)
(* Model of the Eco-Connect verification services.                         *)
(*                                                                         *)
(*   fastapi2.py   EcoConnectVerificationSystem (the four stages, the      *)
(*                 full and the anonymous pipeline) and the HTTP handler   *)
(*                 POST /api/verify-task, and the handlers of signup,      *)
(*                 login and delete_user                                   *)
(*   waste_api.py  the three stages of the waste service and the handler   *)
(*                 POST /verify-waste, which runs its pipeline inline      *)
(*   flask_app/app.py, flask_eco/app.py                                    *)
(*                 the two Flask front ends: validation of signup data,    *)
(*                 signup, login, logout, guests, task uploads, the camera *)
(*                 and the face images kept in the session                 *)
(*                                                                         *)
(* Python dicts are records; a key that a dict does not hold is a field    *)
(* the record does not have.  The ordered mapping `steps` is a sequence of *)
(* [name, result] entries in insertion order.  None is the empty sequence  *)
(* and a present optional value v is <<v>>.  Scores and confidences are    *)
(* in hundredths (0.7 is 70); a similarity is kept exactly, as a numerator *)
(* and a squared denominator.  Times are in seconds.  A Python exception   *)
(* leaving a function is the value Raised.                                 *)
(*                                                                         *)
(* The specifications: Spec runs the pipelines and their handlers,         *)
(* SpecStages calls one function on its own, SpecAccounts serves the       *)
(* signup, login, delete and verify-task requests of fastapi2.py.  Of the  *)
(* front ends, SpecFlask serves the account and upload requests of one     *)
(* client, SpecNames its signups and name checks, SpecCapture its camera   *)
(* and face-image requests, and SpecSignups the signups of two clients in  *)
(* parallel.  A front end takes the answers of the services it calls as    *)
(* inputs; the services' own state is that of the other specifications.    *)
(***************************************************************************)
EXTENDS Integers, Sequences, FiniteSets, TLC

\* ------------------------------------------------------------------ bounds

\* capture dates range over the days -MaxAgeDays .. MaxFutureDays around day 0
MaxAgeDays == 8
MaxFutureDays == 1
\* the validation clock reads 0 .. MaxClock seconds after midnight of day 0
MaxClock == 1
\* at most MaxDet boxes in a detector's output
MaxDet == 2
\* at most MaxFaces faces found in one person crop
MaxFaces == 2
\* the passwords tried have up to MaxPad copies of one character followed by
\* up to MaxTail free characters
MaxPad == 6
MaxTail == 3
\* a session takes uploads while it holds fewer than MaxUploads of them and
\* fewer than MaxCoins eco-coins
MaxUploads == 1
MaxCoins == 30
\* the image indices of the save_face_image requests are 0 .. MaxImageIndex
MaxImageIndex == 5

\* ------------------------------------------------------- values and helpers

None == <<>>
Some(v) == <<v>>

Raised == [raised |-> TRUE]
IsRaised(r) == "raised" \in DOMAIN r

Msg(text, arg) == [text |-> text, arg |-> arg]

SecondsPerDay == 24 * 60 * 60

\* a day count that truncates toward zero instead of flooring
timedelta_days_truncating(d) ==
    IF d >= 0 THEN d \div SecondsPerDay ELSE 0 - ((0 - d) \div SecondsPerDay)

\* timedelta.days of a difference of d seconds: timedelta normalises to
\* 0 <= seconds < 86400, so days is the floor of d / 86400
timedelta_days(d) == d \div SecondsPerDay

\* ------------------------------------------------------- stage 1: AI check

\* Python's `word in label.lower()` over the labels a classifier can answer
Contains(label, word) ==
    <<label, word>> \in { <<"artificial", "artificial">>, <<"artificial", "ai">>,
                          <<"real", "real">> }

\* thresholds of the classifier path and of the Laplacian heuristic
AiScoreThreshold == 70
WasteAiScoreThreshold == 50
WasteRealThreshold == 30
WasteTopThreshold == 80
LaplacianThreshold == 50

\* what the image classifier answers: it throws, or a list of
\* [label, score] sorted by descending score (possibly empty)
Scores == {20, 50, 51, 70, 71, 85}
ClassifierPair(s, neg) ==
    IF s >= 100 - s
    THEN << [label |-> "artificial", score |-> s], [label |-> neg, score |-> 100 - s] >>
    ELSE << [label |-> neg, score |-> 100 - s], [label |-> "artificial", score |-> s] >>
ClassifierOutputs ==
    { [throws |-> TRUE, results |-> <<>>], [throws |-> FALSE, results |-> <<>>] }
    \cup { [throws |-> FALSE, results |-> ClassifierPair(s, neg)] :
               s \in Scores, neg \in {"human", "real"} }

\* what the Laplacian heuristic meets: the pixel array cannot be built or
\* converted (throws), or a variance
LaplacianInputs ==
    { [throws |-> TRUE, var |-> 0] }
    \cup { [throws |-> FALSE, var |-> v] :
               v \in {LaplacianThreshold - 1, LaplacianThreshold} }

\* fastapi2._basic_ai_check: no exception handler of its own
_basic_ai_check(lap) ==
    IF lap.throws THEN Raised
    ELSE IF lap.var < LaplacianThreshold
    THEN [is_valid |-> FALSE, confidence |-> 60,
          message |-> Msg("Image rejected: Possibly AI-generated (low texture variance)", 0)]
    ELSE [is_valid |-> TRUE, confidence |-> 50,
          message |-> Msg("Image passed basic AI check", 0)]

\* index of the first result the fastapi2 loop rejects on, 0 when none
FirstAiHit(results) ==
    LET hits == { i \in 1..Len(results) :
                    /\ \/ Contains(results[i].label, "artificial")
                       \/ Contains(results[i].label, "ai")
                    /\ results[i].score > AiScoreThreshold }
    IN IF hits = {} THEN 0 ELSE CHOOSE i \in hits : \A j \in hits : i <= j

\* fastapi2.verify_ai_image; an exception in the classifier path (and one of
\* _basic_ai_check called inside the try) lands in the handler, which calls
\* _basic_ai_check outside any handler
verify_ai_image(detector_loaded, cls, lap) ==
    IF ~detector_loaded THEN _basic_ai_check(lap)
    ELSE IF cls.throws THEN _basic_ai_check(lap)
    ELSE LET h == FirstAiHit(cls.results) IN
         IF h # 0
         THEN [is_valid |-> FALSE, confidence |-> cls.results[h].score,
               message |-> Msg("Image rejected: AI-generated", cls.results[h].score)]
         ELSE [is_valid |-> TRUE,
               confidence |-> IF cls.results # <<>> THEN cls.results[1].score ELSE 0,
               message |-> Msg("Image passed AI detection check", 0)]

\* waste_api.basic_ai_check: its own handler allows the image
basic_ai_check(lap) ==
    IF lap.throws
    THEN [is_valid |-> TRUE, confidence |-> 50,
          message |-> Msg("AI check failed, allowing image", 0)]
    ELSE IF lap.var < LaplacianThreshold
    THEN [is_valid |-> FALSE, confidence |-> 60,
          message |-> Msg("Image rejected: Possibly AI-generated (low texture variance)", 0)]
    ELSE [is_valid |-> TRUE, confidence |-> 50,
          message |-> Msg("Image passed basic AI check", 0)]

WasteIsAiLabel(label) ==
    \/ Contains(label, "artificial") \/ Contains(label, "ai")
    \/ Contains(label, "generated") \/ Contains(label, "fake")
WasteIsRealLabel(label) ==
    Contains(label, "real") \/ Contains(label, "authentic")

\* the waste_api loop returns at the first result that trips either test
WasteFirstHit(results) ==
    LET hits == { i \in 1..Len(results) :
                    \/ WasteIsAiLabel(results[i].label)
                         /\ results[i].score > WasteAiScoreThreshold
                    \/ WasteIsRealLabel(results[i].label)
                         /\ results[i].score < WasteRealThreshold }
    IN IF hits = {} THEN 0 ELSE CHOOSE i \in hits : \A j \in hits : i <= j

MaxScore(results) ==
    CHOOSE s \in { results[i].score : i \in 1..Len(results) } :
        \A i \in 1..Len(results) : results[i].score <= s

\* waste_api.verify_ai_image
waste_verify_ai_image(detector_loaded, cls, lap) ==
    IF ~detector_loaded THEN basic_ai_check(lap)
    ELSE IF cls.throws THEN basic_ai_check(lap)
    ELSE LET h == WasteFirstHit(cls.results) IN
         IF h # 0
         THEN LET r == cls.results[h] IN
              IF WasteIsAiLabel(r.label) /\ r.score > WasteAiScoreThreshold
              THEN [is_valid |-> FALSE, confidence |-> r.score,
                    message |-> Msg("Image rejected: AI-generated", r.score)]
              ELSE [is_valid |-> FALSE, confidence |-> 100 - r.score,
                    message |-> Msg("Image rejected: AI-generated", 100 - r.score)]
         ELSE IF cls.results # <<>> /\ MaxScore(cls.results) > WasteTopThreshold
         THEN [is_valid |-> TRUE, confidence |-> MaxScore(cls.results),
               message |-> Msg("Image passed AI detection check", 0)]
         ELSE [is_valid |-> TRUE,
               confidence |-> IF cls.results # <<>> THEN cls.results[1].score ELSE 50,
               message |-> Msg("Image passed AI detection check", 0)]

\* ------------------------------------------------- stage 2: capture time

\* What the stage meets in the file.  kind: "error" (Image.open or _getexif
\* throws), "no_exif" (no EXIF block), "no_tag" (neither DateTimeOriginal nor
\* DateTime), "tag" (a timestamp string).  The string 'Y:m:d H:M:S' is its
\* date, as a day number, and its time of day in seconds; a time of day
\* outside 00:00:00 .. 23:59:59 does not parse.
DayOffsets == {0, 1, SecondsPerDay - 1, SecondsPerDay}
ExifInputs ==
    { [kind |-> k, day |-> 0, sec |-> 0] : k \in {"error", "no_exif", "no_tag"} }
    \cup { [kind |-> "tag", day |-> d, sec |-> s] :
               d \in (0 - MaxAgeDays)..MaxFutureDays, s \in DayOffsets }
Clock == 0..MaxClock

\* datetime.strptime(datetime_str, '%Y:%m:%d %H:%M:%S'): seconds since
\* midnight of day 0, or None for a ValueError
strptime(exif) ==
    IF exif.sec \in 0..(SecondsPerDay - 1)
    THEN Some(exif.day * SecondsPerDay + exif.sec)
    ELSE None

\* the oldest age in days that is still accepted
MaxDaysOld == 7

\* fastapi2.verify_exif_datetime
verify_exif_datetime(exif, current_time) ==
    IF exif.kind = "error"
    THEN [is_valid |-> FALSE, capture_time |-> None,
          message |-> Msg("EXIF verification failed", 0)]
    ELSE IF exif.kind = "no_exif"
    THEN [is_valid |-> FALSE, capture_time |-> None,
          message |-> Msg("Image rejected: No EXIF data found", 0)]
    ELSE IF exif.kind = "no_tag"
    THEN [is_valid |-> FALSE, capture_time |-> None,
          message |-> Msg("Image rejected: No timestamp in EXIF data", 0)]
    ELSE IF strptime(exif) = None
    THEN [is_valid |-> FALSE, capture_time |-> None,
          message |-> Msg("EXIF verification failed", 0)]
    ELSE LET capture_time == strptime(exif)[1]
             days == timedelta_days(current_time - capture_time)
         IN IF days < 0
            THEN [is_valid |-> FALSE, capture_time |-> Some(capture_time),
                  message |-> Msg("Image rejected: Future timestamp detected", capture_time)]
            ELSE IF days > MaxDaysOld
            THEN [is_valid |-> FALSE, capture_time |-> Some(capture_time),
                  message |-> Msg("Image rejected: Image older than 7 days", days)]
            ELSE [is_valid |-> TRUE, capture_time |-> Some(capture_time),
                  message |-> Msg("Image timestamp valid", days)]

\* waste_api.verify_exif_datetime: the same tests; the future-timestamp
\* message does not quote the capture time
waste_verify_exif_datetime(exif, current_time) ==
    IF exif.kind = "error"
    THEN [is_valid |-> FALSE, capture_time |-> None,
          message |-> Msg("EXIF verification failed", 0)]
    ELSE IF exif.kind = "no_exif"
    THEN [is_valid |-> FALSE, capture_time |-> None,
          message |-> Msg("Image rejected: No EXIF data found", 0)]
    ELSE IF exif.kind = "no_tag"
    THEN [is_valid |-> FALSE, capture_time |-> None,
          message |-> Msg("Image rejected: No timestamp in EXIF data", 0)]
    ELSE IF strptime(exif) = None
    THEN [is_valid |-> FALSE, capture_time |-> None,
          message |-> Msg("EXIF verification failed", 0)]
    ELSE LET capture_time == strptime(exif)[1]
             days == timedelta_days(current_time - capture_time)
         IN IF days < 0
            THEN [is_valid |-> FALSE, capture_time |-> Some(capture_time),
                  message |-> Msg("Image rejected: Future timestamp detected", 0)]
            ELSE IF days > MaxDaysOld
            THEN [is_valid |-> FALSE, capture_time |-> Some(capture_time),
                  message |-> Msg("Image rejected: Image older than 7 days", days)]
            ELSE [is_valid |-> TRUE, capture_time |-> Some(capture_time),
                  message |-> Msg("Image timestamp valid", days)]

\* ------------------------------------------------------ stage 3: activity

valid_tasks == {"plantation", "waste_management", "stray_animal_feeding"}

task_classes(task_type) ==
    CASE task_type = "plantation"           -> {"person", "plantation"}
      [] task_type = "waste_management"     -> {"person", "collecting-waste"}
      [] task_type = "stray_animal_feeding" -> {"person", "animal_feeding"}

ConfidenceThreshold == 50

\* what a detector answers: reading the image throws (where = "read"), the
\* detector throws (where = "model"), or a list of boxes [cls, conf]; a
\* box's index in the list stands for its coordinates
\* the class names of the detector selected for task_type (each detector is
\* trained on its own activity)
ModelClasses(task_type) ==
    IF task_type \in valid_tasks THEN task_classes(task_type) ELSE {"person"}
Boxes(task_type) ==
    [cls : ModelClasses(task_type), conf : {ConfidenceThreshold, ConfidenceThreshold + 1}]
BoxLists(task_type) == UNION { [1..n -> Boxes(task_type)] : n \in 0..MaxDet }
Detections(task_type) ==
    { [throws |-> TRUE, where |-> w, boxes |-> <<>>] : w \in {"read", "model"} }
    \cup { [throws |-> FALSE, where |-> "none", boxes |-> b] : b \in BoxLists(task_type) }

RECURSIVE PersonBoxes(_, _)
\* the person boxes above the threshold, in detection order, from box i on
PersonBoxes(boxes, i) ==
    IF i > Len(boxes) THEN <<>>
    ELSE IF boxes[i].conf > ConfidenceThreshold /\ boxes[i].cls = "person"
    THEN << [bbox |-> i, confidence |-> boxes[i].conf] >> \o PersonBoxes(boxes, i + 1)
    ELSE PersonBoxes(boxes, i + 1)

\* a detected set that keeps a detection at the threshold itself
DetectedSet_at_threshold(boxes) ==
    { boxes[i].cls : i \in { j \in 1..Len(boxes) : boxes[j].conf >= ConfidenceThreshold } }

\* set(detected_classes): the labels of the detections above the threshold
DetectedSet(boxes) ==
    { boxes[i].cls : i \in { j \in 1..Len(boxes) : boxes[j].conf > ConfidenceThreshold } }

\* fastapi2.verify_activity
verify_activity(task_type, det) ==
    IF task_type \notin valid_tasks
    THEN [is_valid |-> FALSE, detected_classes |-> {}, person_boxes |-> <<>>,
          message |-> [text |-> "Invalid task type", task |-> task_type]]
    ELSE IF det.throws
    THEN [is_valid |-> FALSE, detected_classes |-> {}, person_boxes |-> <<>>,
          message |-> Msg("Activity verification error", 0)]
    ELSE LET detected_set == DetectedSet(det.boxes)
             person_boxes == PersonBoxes(det.boxes, 1)
             required_set == task_classes(task_type)
         IN IF ~(required_set \subseteq detected_set)
            THEN [is_valid |-> FALSE, detected_classes |-> detected_set,
                  person_boxes |-> person_boxes,
                  message |-> [text |-> "Activity verification failed: Missing",
                               missing |-> required_set \ detected_set]]
            ELSE IF person_boxes = <<>>
            THEN [is_valid |-> FALSE, detected_classes |-> detected_set,
                  person_boxes |-> <<>>,
                  message |-> Msg("No person detected in the image", 0)]
            ELSE [is_valid |-> TRUE, detected_classes |-> detected_set,
                  person_boxes |-> person_boxes,
                  message |-> [text |-> "Activity verified", task |-> task_type,
                               persons |-> Len(person_boxes)]]

\* the image reads and detector runs verify_activity makes, in order: none
\* before the task_type test, the detector only once the image is read
verify_activity_calls_read_first(task_type, det) ==
    IF det.where = "read" THEN <<"read">> ELSE <<"read", "model">>

verify_activity_calls(task_type, det) ==
    IF task_type \notin valid_tasks THEN <<>>
    ELSE IF det.where = "read" THEN <<"read">>
    ELSE <<"read", "model">>

\* `waste_term in class_name.lower()` for the six waste terms, over the
\* class names of the waste detector
IsWasteClass(cls) == cls = "collecting-waste"

RECURSIVE DetectedList(_, _)
DetectedList(boxes, i) ==
    IF i > Len(boxes) THEN <<>>
    ELSE IF boxes[i].conf > ConfidenceThreshold
    THEN <<boxes[i].cls>> \o DetectedList(boxes, i + 1)
    ELSE DetectedList(boxes, i + 1)

\* waste_api.verify_waste_activity
verify_waste_activity(model_loaded, det) ==
    IF ~model_loaded
    THEN [is_valid |-> FALSE, detected_classes |-> <<>>,
          message |-> Msg("Waste collection model not loaded", 0)]
    ELSE IF det.throws
    THEN [is_valid |-> FALSE, detected_classes |-> <<>>,
          message |-> Msg("Activity verification error", 0)]
    ELSE LET kept == { i \in 1..Len(det.boxes) : det.boxes[i].conf > ConfidenceThreshold }
             person_detected == \E i \in kept : det.boxes[i].cls = "person"
             waste_detected == \E i \in kept : /\ det.boxes[i].cls # "person"
                                               /\ IsWasteClass(det.boxes[i].cls)
         IN IF ~person_detected
            THEN [is_valid |-> FALSE, detected_classes |-> DetectedList(det.boxes, 1),
                  message |-> Msg("No person detected in waste collection activity", 0)]
            ELSE IF ~waste_detected
            THEN [is_valid |-> FALSE, detected_classes |-> DetectedList(det.boxes, 1),
                  message |-> Msg("No waste collection activity detected in image", 0)]
            ELSE [is_valid |-> TRUE, detected_classes |-> DetectedList(det.boxes, 1),
                  message |-> Msg("Waste collection activity verified successfully", 0)]

\* ---------------------------------------------------------- stage 4: face

\* Embeddings are integer vectors (the reference model's have 512 float
\* components).  A similarity is the real number num / sqrt(den2), kept
\* exactly as the pair [num, den2]; den2 = 0 is the NaN numpy yields for a
\* zero vector, which the face model never produces.
RECURSIVE DotFrom(_, _, _)
DotFrom(u, v, i) ==
    IF i > Len(u) THEN 0 ELSE u[i] * v[i] + DotFrom(u, v, i + 1)
\* np.dot(u, v)
Dot(u, v) == DotFrom(u, v, 1)
\* np.linalg.norm(u), squared
Norm2(u) == Dot(u, u)

\* a similarity that forgets to normalise the second embedding
_compute_similarity_second_raw(embedding1, embedding2) ==
    [num |-> Dot(embedding1, embedding2), den2 |-> Norm2(embedding1)]

\* fastapi2._compute_similarity: dot(e1 / |e1|, e2 / |e2|)
_compute_similarity(embedding1, embedding2) ==
    [num |-> Dot(embedding1, embedding2),
     den2 |-> Norm2(embedding1) * Norm2(embedding2)]

\* the floats 0 and 1.0 as similarities
SimZero == [num |-> 0, den2 |-> 1]
SimOne == [num |-> 1, den2 |-> 1]

similarity_threshold == 35

\* a comparison that leaves out the threshold itself
SimAtLeast_strict(sim, hundredths) ==
    /\ sim.den2 > 0
    /\ sim.num >= 0
    /\ 10000 * sim.num * sim.num > hundredths * hundredths * sim.den2

\* `similarity >= hundredths / 100` for hundredths >= 0 (false for NaN)
SimAtLeast(sim, hundredths) ==
    /\ sim.den2 > 0
    /\ sim.num >= 0
    /\ 10000 * sim.num * sim.num >= hundredths * hundredths * sim.den2

\* face embeddings: along the first axis, against it, across it, and three
\* whose cosine to the first axis is 0.35 exactly (7 / 20), just below
\* (7 / sqrt(403)) and just above (7 / sqrt(399))
Embeddings ==
    { <<1, 0, 0, 0, 0>>, <<2, 0, 0, 0, 0>>, <<-1, 0, 0, 0, 0>>, <<0, 1, 0, 0, 0>>,
      <<7, 18, 5, 1, 1>>, <<7, 18, 5, 1, 2>>, <<7, 18, 5, 1, 0>> }

\* the embeddings the pipeline runs draw from: the face in the image, and
\* the reference of a registered user who is that person (similarity 1.0)
\* or of one who is not (similarity 0)
PipelineReferences == { <<1, 0, 0, 0, 0>>, <<0, 1, 0, 0, 0>> }
PipelineFaces == { <<2, 0, 0, 0, 0>> }

\* what the face stage meets.  open: reading the image throws ("throws"),
\* cv2.imread answers None ("none"), or an image ("ok").  crops: for each
\* person box, face_app.get on its crop throws or lists the embeddings of
\* the faces it finds.
FaceLists(embs) == UNION { [1..n -> embs] : n \in 0..MaxFaces }
CropOutcomes(embs) ==
    { [throws |-> TRUE, faces |-> <<>>] }
    \cup { [throws |-> FALSE, faces |-> f] : f \in FaceLists(embs) }
FaceInputs(nboxes, embs) ==
    { [open |-> "throws", crops |-> [i \in 1..nboxes |-> [throws |-> FALSE, faces |-> <<>>]]],
      [open |-> "none", crops |-> [i \in 1..nboxes |-> [throws |-> FALSE, faces |-> <<>>]]] }
    \cup { [open |-> "ok", crops |-> c] : c \in [1..nboxes -> CropOutcomes(embs)] }

\* the first box whose crop makes face_app.get throw, 0 when none
FirstThrow(crops) ==
    LET bad == { b \in 1..Len(crops) : crops[b].throws }
    IN IF bad = {} THEN 0 ELSE CHOOSE b \in bad : \A c \in bad : b <= c

\* the (box, face) pairs whose similarity to ref reaches the threshold
Hits(ref, crops) ==
    { <<b, k>> \in (1..Len(crops)) \X (1..MaxFaces + 1) :
        /\ k <= Len(crops[b].faces)
        /\ SimAtLeast(_compute_similarity(ref, crops[b].faces[k]), similarity_threshold) }

\* the hit of greatest similarity (the earliest among equals)
FirstMatch_best(ref, crops) ==
    LET hits == Hits(ref, crops)
        sim(h) == _compute_similarity(ref, crops[h[1]].faces[h[2]])
        before(h, g) == h[1] < g[1] \/ (h[1] = g[1] /\ h[2] <= g[2])
        geq(x, y) == x.num * x.num * y.den2 >= y.num * y.num * x.den2
        gt(x, y) == x.num * x.num * y.den2 > y.num * y.num * x.den2
    IN IF hits = {} THEN <<0, 0>>
       ELSE CHOOSE h \in hits :
              \A g \in hits : gt(sim(h), sim(g)) \/ (geq(sim(h), sim(g)) /\ before(h, g))

\* the first hit in box order then face order, <<0, 0>> when none
FirstMatch(ref, crops) ==
    LET hits == Hits(ref, crops)
    IN IF hits = {} THEN <<0, 0>>
       ELSE CHOOSE h \in hits :
              \A g \in hits : h[1] < g[1] \/ (h[1] = g[1] /\ h[2] <= g[2])

\* a face stage without its exception handler
FaceError_raised == Raised

\* the handler at the end of verify_face
FaceError ==
    [is_valid |-> FALSE, matched_person |-> None, similarity |-> SimZero,
     message |-> Msg("Face verification error", 0)]

\* fastapi2.verify_face.  The image is read first; an empty person_boxes
\* returns before the image is touched; the box loop then reads
\* task_image.shape (an AttributeError on None) and calls face_app.get on
\* each crop until a face matches.
verify_face(ref, person_boxes, fin) ==
    IF fin.open = "throws" THEN FaceError
    ELSE IF person_boxes = <<>>
    THEN [is_valid |-> FALSE, matched_person |-> None, similarity |-> SimZero,
          message |-> Msg("No persons detected in image", 0)]
    ELSE IF fin.open = "none" THEN FaceError
    ELSE LET m == FirstMatch(ref, fin.crops)
             t == FirstThrow(fin.crops)
         IN IF m # <<0, 0>> /\ (t = 0 \/ m[1] < t)
            THEN LET sim == _compute_similarity(ref, fin.crops[m[1]].faces[m[2]]) IN
                 [is_valid |-> TRUE, matched_person |-> Some(m[1]),
                  similarity |-> sim,
                  message |-> [text |-> "Face verified: Match found", similarity |-> sim]]
            ELSE IF t # 0 THEN FaceError
            ELSE [is_valid |-> FALSE, matched_person |-> None, similarity |-> SimZero,
                  message |-> Msg("Face verification failed: Registered user not found in image", 0)]

\* ------------------------------------------------------------ the state

VARIABLES
    fastapi_up,   \* fastapi2's startup event has run
    verifier,     \* fastapi2.verifier: [loaded, ai_detector]; loaded = FALSE is None
    waste_up,     \* waste_api's startup event has run
    waste_model,  \* waste_api.waste_model is not None
    ai_detector,  \* waste_api.ai_detector is not None
    handler,      \* the HTTP handler running: "none", "verify_task", "verify_waste"
    pipeline,     \* the pipeline running: "none", "full", "anonymous", "waste"
    pc,           \* position: "idle", "open", a stage name, "returned", "raised", "responded"
    task_type,    \* the task_type argument of the run
    results,      \* the report dict under construction, then returned
    calls,        \* the stage functions called in this run, by stage name, in call order
    now,          \* what datetime.now() returned to the capture-time stage
    tempFile,     \* the request's uploaded file on disk: "none", "exists", "removed"
    response,     \* the handler's answer: [status] (0 while pending), with body on 200
    \* a single stage function called on its own
    fn,           \* the function called, "none" when the pipeline model runs
    arg,          \* its arguments and what it meets in the image and the models
    out,          \* NotRun, then what the call returned (or Raised)
    ext,          \* the image reads and detector runs verify_activity made, in order
    \* fastapi2's files on disk and the last account request
    face_embeddings,   \* face_embeddings/{user_id}.npy: None or Some(embedding)
    user_data_files,   \* uploads/{user_id}_data.json: None or Some(record)
    face_image_files,  \* uploads/{user_id}/face_{i}.jpg: the set of i on disk
    last,              \* the last account request: what was asked and answered
    \* a Flask front end (flask_app or flask_eco), its files and its clients
    flask,        \* which app runs, and its FACE_RECOGNITION_AVAILABLE
    users_dir,    \* data/users: the record of each {user_id}.json, by user_id
    session,      \* the session dict of each client
    inflight,     \* each client's signup request between its checks and its save
    camera,       \* the global camera: None, or Some(whether it is opened)
    reply         \* the last answer of the front end

pipelineVars == <<fastapi_up, verifier, waste_up, waste_model, ai_detector, handler,
                  pipeline, pc, task_type, results, calls, now, tempFile, response>>
benchVars == <<fn, arg, out, ext>>

\* the variables the pipeline actions leave alone
accountVars == <<face_embeddings, user_data_files, face_image_files, last>>
flaskVars == <<flask, users_dir, session, inflight, camera, reply>>
offPipeline == <<benchVars, accountVars, flaskVars>>

vars == <<pipelineVars, benchVars, accountVars, flaskVars>>

\* the pipeline with the second and third stage exchanged
StageOrder_swapped == <<"ai_detection", "activity_verification", "exif_verification",
                        "face_verification">>

StageOrder == <<"ai_detection", "exif_verification", "activity_verification",
                "face_verification">>

\* waste_api's verify_waste runs the first three stages, the fastapi2
\* pipelines all four
NumStages(pl) == IF pl = "waste" THEN 3 ELSE 4

StageIndex(stage) == CHOOSE i \in 1..Len(StageOrder) : StageOrder[i] = stage

TaskTypes == valid_tasks \cup {"recycling"}

EmptyReport == [overall_valid |-> FALSE, steps |-> <<>>]
NoResponse == [status |-> 0]

NotRun == [pending |-> TRUE]

\* no single-stage call is under way
BenchIdle ==
    /\ fn = "none"
    /\ arg = <<>>
    /\ out = NotRun
    /\ ext = <<>>

\* the user ids, e-mail addresses and passwords of the requests
UserIds == {"u1", "u2"}
Emails == {"a@x.org", "b@x.org"}
Passwords == {"pw1", "pw2"}

NoRequest == [op |-> "none"]

\* both directories are empty and no account request has been made
AccountsInit ==
    /\ face_embeddings = [u \in UserIds |-> None]
    /\ user_data_files = [u \in UserIds |-> None]
    /\ face_image_files = [u \in UserIds |-> {}]
    /\ last = NoRequest

PipelineInit ==
    /\ fastapi_up = FALSE
    /\ verifier = [loaded |-> FALSE, ai_detector |-> FALSE]
    /\ waste_up = FALSE
    /\ waste_model = FALSE
    /\ ai_detector = FALSE
    /\ handler = "none"
    /\ pipeline = "none"
    /\ pc = "idle"
    /\ task_type = "plantation"
    /\ results = EmptyReport
    /\ calls = <<>>
    /\ now = 0
    /\ tempFile = "none"
    /\ response = NoResponse

\* the clients of the front end, each with a session of its own
Clients == {"c1", "c2"}

EmptyDict == <<>>
NoSignup == [pending |-> FALSE]
NoReply == [route |-> "none"]

\* the front end has just started: no user file, empty sessions, no camera
FlaskInit(apps) ==
    /\ \E a \in apps, b \in BOOLEAN :
           /\ a = "flask_app" => ~b
           /\ flask = [app |-> a, FACE_RECOGNITION_AVAILABLE |-> b]
    /\ users_dir = EmptyDict
    /\ session = [c \in Clients |-> EmptyDict]
    /\ inflight = [c \in Clients |-> NoSignup]
    /\ camera = None
    /\ reply = NoReply

FlaskIdle == FlaskInit({"flask_app"})

Init == PipelineInit /\ BenchIdle /\ AccountsInit /\ FlaskIdle

\* --------------------------------------------------- building the report

\* results['steps'][name] = r
RecordStep(res, name, r) ==
    IF \E i \in 1..Len(res.steps) : res.steps[i].name = name
    THEN [res EXCEPT !.steps = [i \in 1..Len(res.steps) |->
                                  IF res.steps[i].name = name
                                  THEN [name |-> name, result |-> r]
                                  ELSE res.steps[i]]]
    ELSE [res EXCEPT !.steps = Append(res.steps, [name |-> name, result |-> r])]

\* results['message'] = m
SetMessage(res, m) ==
    [overall_valid |-> res.overall_valid, steps |-> res.steps, message |-> m]

\* the success lines without `results['overall_valid'] = True`
SetSuccess_flag_forgotten(res, m) ==
    [overall_valid |-> res.overall_valid, steps |-> res.steps, message |-> m]

\* results['overall_valid'] = True; results['message'] = m
SetSuccess(res, m) ==
    [overall_valid |-> TRUE, steps |-> res.steps, message |-> m]

FullSuccessMessage == Msg("All verification checks passed successfully!", 0)
AnonymousSuccessMessage(tt) ==
    [text |-> "Task verification completed successfully!", task |-> tt]
WasteSuccessMessage == Msg("Waste collection task verified successfully!", 0)

\* a placeholder that reports no similarity
face_placeholder_unscored ==
    [is_valid |-> TRUE,
     message |-> Msg("Face verification skipped for anonymous usage", 0),
     matched_person |-> None, similarity |-> SimZero]

\* the face_verification entry anonymous_verification writes itself
face_placeholder ==
    [is_valid |-> TRUE,
     message |-> Msg("Face verification skipped for anonymous usage", 0),
     matched_person |-> None, similarity |-> SimOne]

\* a pipeline without any `if not r['is_valid']: return results`
NextPc_no_early_return(pl, stage, r) ==
    IF StageIndex(stage) = NumStages(pl) THEN "returned"
    ELSE StageOrder[StageIndex(stage) + 1]

\* a pipeline whose early return after the capture-time stage is missing
NextPc_exif_unchecked(pl, stage, r) ==
    IF ~r.is_valid /\ stage # "exif_verification" THEN "returned"
    ELSE IF StageIndex(stage) = NumStages(pl) THEN "returned"
    ELSE StageOrder[StageIndex(stage) + 1]

\* where the pipeline goes after `stage` answered r: `if not r['is_valid']:
\* return results`, else on to the next stage, or the final return
NextPc(pl, stage, r) ==
    IF ~r.is_valid THEN "returned"
    ELSE IF StageIndex(stage) = NumStages(pl) THEN "returned"
    ELSE StageOrder[StageIndex(stage) + 1]

\* the report after `stage` answered r.  full_verification returns the
\* report as it stands on an invalid stage; anonymous_verification and
\* verify_waste copy the stage's message first.  After the last stage of a
\* pipeline the success lines run.
AfterStage(pl, res, stage, r, tt) ==
    LET rec == RecordStep(res, stage, r) IN
    IF ~r.is_valid
    THEN IF pl = "full" THEN rec ELSE SetMessage(rec, r.message)
    ELSE IF StageIndex(stage) < NumStages(pl) THEN rec
    ELSE IF pl = "full" THEN SetSuccess(rec, FullSuccessMessage)
    ELSE IF pl = "anonymous" THEN SetSuccess(rec, AnonymousSuccessMessage(tt))
    ELSE SetSuccess(rec, WasteSuccessMessage)

\* verify_waste removes the upload on each of its returns
FileAfterStage(pl, file, stage, r) ==
    IF pl = "waste" /\ NextPc(pl, stage, r) = "returned" THEN "removed" ELSE file

\* ------------------------------------------------------------- startup

\* fastapi2.startup_event: the verifier is built (with or without its AI
\* classifier, whose failure __init__ swallows), or building it throws and
\* verifier stays None
Startup ==
    /\ ~fastapi_up
    /\ pc = "idle"
    /\ fastapi_up' = TRUE
    /\ \E v \in { [loaded |-> FALSE, ai_detector |-> FALSE],
                  [loaded |-> TRUE, ai_detector |-> FALSE],
                  [loaded |-> TRUE, ai_detector |-> TRUE] } : verifier' = v
    /\ UNCHANGED offPipeline
    /\ UNCHANGED <<waste_up, waste_model, ai_detector, handler, pipeline, pc,
                   task_type, results, calls, now, tempFile, response>>

\* waste_api.startup_event: both globals are loaded, or a failure of either
\* load sets both to None
WasteStartup ==
    /\ ~waste_up
    /\ pc = "idle"
    /\ waste_up' = TRUE
    /\ \E ok \in BOOLEAN : waste_model' = ok /\ ai_detector' = ok
    /\ UNCHANGED offPipeline
    /\ UNCHANGED <<fastapi_up, verifier, handler, pipeline, pc, task_type,
                   results, calls, now, tempFile, response>>

\* ------------------------------------------------- exceptions in handlers

\* an exception raised inside a handler's try block
HTTPException(status_code) == [http |-> TRUE, status |-> status_code]
OtherException == [http |-> FALSE, status |-> 0]

\* fastapi2.verify_task: `except HTTPException as he: raise he`, then
\* `except Exception` answers 500
verify_task_except(e) == IF e.http THEN e.status ELSE 500

\* waste_api.verify_waste has the single clause `except Exception`, and
\* HTTPException is an Exception: whatever is raised in the try block,
\* the 503 of a missing model included, is answered as 500
verify_waste_except(e) == 500

\* ----------------------------------------------------- entering a pipeline

\* a direct call verifier.full_verification(embedding, path, task_type)
CallFullVerification ==
    /\ pc = "idle"
    /\ fastapi_up /\ verifier.loaded
    /\ \E tt \in TaskTypes : task_type' = tt
    /\ handler' = "none"
    /\ pipeline' = "full"
    /\ pc' = "open"
    /\ results' = EmptyReport
    /\ calls' = <<>>
    /\ UNCHANGED offPipeline
    /\ UNCHANGED <<fastapi_up, verifier, waste_up, waste_model, ai_detector,
                   now, tempFile, response>>

\* a direct call verifier.anonymous_verification(path, task_type)
CallAnonymousVerification ==
    /\ pc = "idle"
    /\ fastapi_up /\ verifier.loaded
    /\ \E tt \in TaskTypes : task_type' = tt
    /\ handler' = "none"
    /\ pipeline' = "anonymous"
    /\ pc' = "open"
    /\ results' = EmptyReport
    /\ calls' = <<>>
    /\ UNCHANGED offPipeline
    /\ UNCHANGED <<fastapi_up, verifier, waste_up, waste_model, ai_detector,
                   now, tempFile, response>>

\* fastapi2.verify_task up to the call of anonymous_verification: the task
\* type is validated, the upload is saved, and a missing verifier removes
\* the upload and answers 503 (re-raised by `except HTTPException`)
VerifyTaskBegin ==
    /\ pc = "idle"
    /\ fastapi_up
    /\ handler' = "verify_task"
    /\ calls' = <<>>
    /\ results' = EmptyReport
    /\ \E tt \in TaskTypes :
         /\ task_type' = tt
         /\ IF tt \notin valid_tasks
            THEN /\ response' = [status |-> verify_task_except(HTTPException(400))]
                 /\ tempFile' = "none"
                 /\ pipeline' = "none"
                 /\ pc' = "responded"
            ELSE IF ~verifier.loaded
            THEN /\ response' = [status |-> verify_task_except(HTTPException(503))]
                 /\ tempFile' = "removed"
                 /\ pipeline' = "none"
                 /\ pc' = "responded"
            ELSE /\ response' = NoResponse
                 /\ tempFile' = "exists"
                 /\ pipeline' = "anonymous"
                 /\ pc' = "open"
    /\ UNCHANGED offPipeline
    /\ UNCHANGED <<fastapi_up, verifier, waste_up, waste_model, ai_detector, now>>

\* waste_api.verify_waste up to the first stage: a missing model raises
\* HTTPException(503) inside the try block, before the upload is saved
VerifyWasteBegin ==
    /\ pc = "idle"
    /\ waste_up
    /\ handler' = "verify_waste"
    /\ calls' = <<>>
    /\ results' = EmptyReport
    /\ task_type' = "waste_management"
    /\ IF ~waste_model
       THEN /\ response' = [status |-> verify_waste_except(HTTPException(503))]
            /\ tempFile' = "none"
            /\ pipeline' = "none"
            /\ pc' = "responded"
       ELSE /\ response' = NoResponse
            /\ tempFile' = "exists"
            /\ pipeline' = "waste"
            /\ pc' = "open"
    /\ UNCHANGED offPipeline
    /\ UNCHANGED <<fastapi_up, verifier, waste_up, waste_model, ai_detector, now>>

\* ------------------------------------------------------------ the stages

\* img = Image.open(path), outside any handler in all three pipelines: a
\* missing file or one that is not an image raises
OpenImage ==
    /\ pc = "open"
    /\ \E openable \in BOOLEAN :
         pc' = IF openable THEN "ai_detection" ELSE "raised"
    /\ UNCHANGED offPipeline
    /\ UNCHANGED <<fastapi_up, verifier, waste_up, waste_model, ai_detector,
                   handler, pipeline, task_type, results, calls, now, tempFile,
                   response>>

\* the stage function of `stage` is called and answers r (or raises)
RunStage(stage, r) ==
    /\ calls' = Append(calls, stage)
    /\ IF IsRaised(r)
       THEN /\ pc' = "raised"
            /\ UNCHANGED <<results, tempFile>>
       ELSE /\ results' = AfterStage(pipeline, results, stage, r, task_type)
            /\ pc' = NextPc(pipeline, stage, r)
            /\ tempFile' = FileAfterStage(pipeline, tempFile, stage, r)

AiDetection ==
    /\ pc = "ai_detection"
    /\ \E cls \in ClassifierOutputs, lap \in LaplacianInputs :
         RunStage("ai_detection",
                  IF pipeline = "waste"
                  THEN waste_verify_ai_image(ai_detector, cls, lap)
                  ELSE verify_ai_image(verifier.ai_detector, cls, lap))
    /\ UNCHANGED offPipeline
    /\ UNCHANGED <<fastapi_up, verifier, waste_up, waste_model, ai_detector,
                   handler, pipeline, task_type, now, response>>

ExifVerification ==
    /\ pc = "exif_verification"
    /\ \E exif \in ExifInputs, t \in Clock :
         /\ now' = t
         /\ RunStage("exif_verification",
                     IF pipeline = "waste"
                     THEN waste_verify_exif_datetime(exif, t)
                     ELSE verify_exif_datetime(exif, t))
    /\ UNCHANGED offPipeline
    /\ UNCHANGED <<fastapi_up, verifier, waste_up, waste_model, ai_detector,
                   handler, pipeline, task_type, response>>

ActivityVerification ==
    /\ pc = "activity_verification"
    /\ \E det \in Detections(task_type) :
         RunStage("activity_verification",
                  IF pipeline = "waste"
                  THEN verify_waste_activity(waste_model, det)
                  ELSE verify_activity(task_type, det))
    /\ UNCHANGED offPipeline
    /\ UNCHANGED <<fastapi_up, verifier, waste_up, waste_model, ai_detector,
                   handler, pipeline, task_type, now, response>>

\* activity_result['person_boxes'] of the report
ActivityPersonBoxes(res) ==
    LET i == CHOOSE j \in 1..Len(res.steps) : res.steps[j].name = "activity_verification"
    IN res.steps[i].result.person_boxes

\* full_verification's fourth stage
FaceVerification ==
    /\ pc = "face_verification"
    /\ pipeline = "full"
    /\ \E ref \in PipelineReferences,
          fin \in FaceInputs(Len(ActivityPersonBoxes(results)), PipelineFaces) :
         RunStage("face_verification",
                  verify_face(ref, ActivityPersonBoxes(results), fin))
    /\ UNCHANGED offPipeline
    /\ UNCHANGED <<fastapi_up, verifier, waste_up, waste_model, ai_detector,
                   handler, pipeline, task_type, now, response>>

\* anonymous_verification's fourth step: the placeholder entry is written
\* without any call, then the success lines run
FacePlaceholder ==
    /\ pc = "face_verification"
    /\ pipeline = "anonymous"
    /\ results' = AfterStage(pipeline, results, "face_verification",
                             face_placeholder, task_type)
    /\ pc' = NextPc(pipeline, "face_verification", face_placeholder)
    /\ UNCHANGED offPipeline
    /\ UNCHANGED <<fastapi_up, verifier, waste_up, waste_model, ai_detector,
                   handler, pipeline, task_type, calls, now, tempFile, response>>

\* ------------------------------------------------- leaving the handlers

\* fastapi2.verify_task after anonymous_verification: on a return the
\* upload is removed and the report answered; an exception goes to
\* `except Exception`, which answers 500 and removes nothing
VerifyTaskEnd ==
    /\ handler = "verify_task"
    /\ pc \in {"returned", "raised"}
    /\ IF pc = "returned"
       THEN /\ tempFile' = "removed"
            /\ response' = [status |-> 200, body |-> results]
       ELSE /\ tempFile' = tempFile
            /\ response' = [status |-> verify_task_except(OtherException)]
    /\ pc' = "responded"
    /\ UNCHANGED offPipeline
    /\ UNCHANGED <<fastapi_up, verifier, waste_up, waste_model, ai_detector,
                   handler, pipeline, task_type, results, calls, now>>

\* waste_api.verify_waste at its return, or in `except Exception`, which
\* removes the upload if it exists and answers 500
VerifyWasteEnd ==
    /\ handler = "verify_waste"
    /\ pc \in {"returned", "raised"}
    /\ IF pc = "returned"
       THEN /\ tempFile' = tempFile
            /\ response' = [status |-> 200, body |-> results]
       ELSE /\ tempFile' = IF tempFile = "exists" THEN "removed" ELSE tempFile
            /\ response' = [status |-> verify_waste_except(OtherException)]
    /\ pc' = "responded"
    /\ UNCHANGED offPipeline
    /\ UNCHANGED <<fastapi_up, verifier, waste_up, waste_model, ai_detector,
                   handler, pipeline, task_type, results, calls, now>>

\* the server is ready for the next request (a new upload gets a new name)
NextRequest ==
    /\ \/ pc = "responded"
       \/ handler = "none" /\ pc \in {"returned", "raised"}
    /\ handler' = "none"
    /\ pipeline' = "none"
    /\ pc' = "idle"
    /\ results' = EmptyReport
    /\ calls' = <<>>
    /\ now' = 0
    /\ task_type' = "plantation"
    /\ tempFile' = "none"
    /\ response' = NoResponse
    /\ UNCHANGED offPipeline
    /\ UNCHANGED <<fastapi_up, verifier, waste_up, waste_model, ai_detector>>

Next ==
    \/ Startup
    \/ WasteStartup
    \/ CallFullVerification
    \/ CallAnonymousVerification
    \/ VerifyTaskBegin
    \/ VerifyWasteBegin
    \/ OpenImage
    \/ AiDetection
    \/ ExifVerification
    \/ ActivityVerification
    \/ FaceVerification
    \/ FacePlaceholder
    \/ VerifyTaskEnd
    \/ VerifyWasteEnd
    \/ NextRequest

Spec == Init /\ [][Next]_vars

\* ------------------------------------- flask_app: validate_password

\* A password is a sequence of characters; a character is one of each class
\* the rules of validate_password tell apart: a letter of A-Z, a letter of
\* a-z, a digit, a character of the listed special set, and a character
\* that is none of these.
PasswordChars == {"A", "a", "1", "!", "_"}

IsUpper(c) == c = "A"
IsLower(c) == c = "a"
IsDigit(c) == c = "1"
IsSpecial(c) == c = "!"

\* re.search(pattern, password): some character of the password matches
re_search(Matches(_), password) == \E i \in 1..Len(password) : Matches(password[i])

MinPasswordLength == 8

\* validate_password with the lowercase and the digit rule exchanged
validate_password_digit_first(password) ==
    IF password = <<>> THEN [valid |-> FALSE, message |-> "Password is required"]
    ELSE IF Len(password) < MinPasswordLength
        THEN [valid |-> FALSE,
              message |-> "Password must be at least 8 characters long"]
    ELSE IF ~re_search(IsUpper, password)
        THEN [valid |-> FALSE,
              message |-> "Password must contain at least one uppercase letter"]
    ELSE IF ~re_search(IsDigit, password)
        THEN [valid |-> FALSE,
              message |-> "Password must contain at least one number"]
    ELSE IF ~re_search(IsLower, password)
        THEN [valid |-> FALSE,
              message |-> "Password must contain at least one lowercase letter"]
    ELSE IF ~re_search(IsSpecial, password)
        THEN [valid |-> FALSE,
              message |-> "Password must contain at least one special character"]
    ELSE [valid |-> TRUE, message |-> "Password is strong"]

validate_password(password) ==
    IF password = <<>> THEN [valid |-> FALSE, message |-> "Password is required"]
    ELSE IF Len(password) < MinPasswordLength
        THEN [valid |-> FALSE,
              message |-> "Password must be at least 8 characters long"]
    ELSE IF ~re_search(IsUpper, password)
        THEN [valid |-> FALSE,
              message |-> "Password must contain at least one uppercase letter"]
    ELSE IF ~re_search(IsLower, password)
        THEN [valid |-> FALSE,
              message |-> "Password must contain at least one lowercase letter"]
    ELSE IF ~re_search(IsDigit, password)
        THEN [valid |-> FALSE,
              message |-> "Password must contain at least one number"]
    ELSE IF ~re_search(IsSpecial, password)
        THEN [valid |-> FALSE,
              message |-> "Password must contain at least one special character"]
    ELSE [valid |-> TRUE, message |-> "Password is strong"]

\* the passwords tried: up to MaxPad copies of one character, then up to
\* MaxTail characters chosen freely
Repeat(c, n) == [i \in 1..n |-> c]

IsPasswordArg(a) ==
    \E n \in 0..MaxPad, c \in PasswordChars, k \in 0..MaxTail :
        \E t \in [1..k -> PasswordChars] : a = Repeat(c, n) \o t

\* ------------------------------------------ a stage function on its own

\* Each stage function is called once, on arguments and surroundings drawn
\* from the sets the pipeline draws from, and its answer is kept in out.

BenchReferences == { <<1, 0, 0, 0, 0>>, <<0, 1, 0, 0, 0>> }
BenchFaces == { <<2, 0, 0, 0, 0>>, <<7, 18, 5, 1, 1>>, <<7, 18, 5, 1, 2>> }

\* n person boxes as verify_activity hands them on
BenchPersonBoxes(n) ==
    [i \in 1..n |-> [bbox |-> i, confidence |-> ConfidenceThreshold + 1]]

AiArgs == [detector_loaded : BOOLEAN, cls : ClassifierOutputs, lap : LaplacianInputs]
ExifArgs == [exif : ExifInputs, current_time : Clock]
ActivityArgs ==
    UNION { { [task_type |-> tt, det |-> d] : d \in Detections(tt) } : tt \in TaskTypes }
SimilarityArgs == [embedding1 : Embeddings, embedding2 : Embeddings]

\* the arguments of a call of verify_face: a reference, up to MaxDet person
\* boxes, and what the stage meets in the image
IsFaceArgs(a) ==
    \E n \in 0..MaxDet, r \in BenchReferences :
        \E f \in FaceInputs(n, BenchFaces) :
            a = [ref |-> r, person_boxes |-> BenchPersonBoxes(n), fin |-> f]

InitStages ==
    /\ PipelineInit
    /\ AccountsInit
    /\ FlaskIdle
    /\ \/ fn \in {"verify_ai_image", "waste_verify_ai_image"} /\ arg \in AiArgs
       \/ fn \in {"verify_exif_datetime", "waste_verify_exif_datetime"} /\ arg \in ExifArgs
       \/ fn = "verify_activity" /\ arg \in ActivityArgs
       \/ fn = "verify_face" /\ IsFaceArgs(arg)
       \/ fn = "_compute_similarity" /\ arg \in SimilarityArgs
       \/ fn = "validate_password" /\ IsPasswordArg(arg)
    /\ out = NotRun
    /\ ext = <<>>

Returns(f, r, e) ==
    /\ fn = f
    /\ out = NotRun
    /\ out' = r
    /\ ext' = e
    /\ UNCHANGED <<fn, arg, pipelineVars, accountVars, flaskVars>>

ApplyVerifyAiImage ==
    Returns("verify_ai_image",
            verify_ai_image(arg.detector_loaded, arg.cls, arg.lap), ext)

ApplyWasteVerifyAiImage ==
    Returns("waste_verify_ai_image",
            waste_verify_ai_image(arg.detector_loaded, arg.cls, arg.lap), ext)

ApplyVerifyExifDatetime ==
    Returns("verify_exif_datetime",
            verify_exif_datetime(arg.exif, arg.current_time), ext)

ApplyWasteVerifyExifDatetime ==
    Returns("waste_verify_exif_datetime",
            waste_verify_exif_datetime(arg.exif, arg.current_time), ext)

ApplyVerifyActivity ==
    Returns("verify_activity",
            verify_activity(arg.task_type, arg.det),
            verify_activity_calls(arg.task_type, arg.det))

ApplyVerifyFace ==
    Returns("verify_face",
            verify_face(arg.ref, arg.person_boxes, arg.fin), ext)

ApplyComputeSimilarity ==
    Returns("_compute_similarity",
            _compute_similarity(arg.embedding1, arg.embedding2), ext)

\* api_validate_password hands the password of the request to validate_password
ApplyValidatePassword ==
    Returns("validate_password", validate_password(arg), ext)

NextStages ==
    \/ ApplyVerifyAiImage
    \/ ApplyWasteVerifyAiImage
    \/ ApplyVerifyExifDatetime
    \/ ApplyWasteVerifyExifDatetime
    \/ ApplyVerifyActivity
    \/ ApplyVerifyFace
    \/ ApplyComputeSimilarity
    \/ ApplyValidatePassword

SpecStages == InitStages /\ [][NextStages]_vars

\* ------------------------------------------- signup, login, delete_user

\* the number of face images a signup must carry
NumFaceImages == 5

\* An uploaded face image: cv2.imread decodes it or answers None, and
\* face_app.get lists the embeddings of the faces in it.
OneFace(e) == [readable |-> TRUE, faces |-> <<e>>]
NoFace == [readable |-> TRUE, faces |-> <<>>]
TwoFaces == [readable |-> TRUE, faces |-> << <<5, 0, 0, 0, 0>>, <<0, 5, 0, 0, 0>> >>]
Unreadable == [readable |-> FALSE, faces |-> <<>>]

\* five images of one face each: the same embedding five times, or one
\* embedding followed by another four times
GoodUploads ==
    { [i \in 1..NumFaceImages |-> OneFace(<<5, 0, 0, 0, 0>>)],
      [i \in 1..NumFaceImages |->
          IF i = 1 THEN OneFace(<<5, 0, 0, 0, 0>>) ELSE OneFace(<<0, 5, 0, 0, 0>>)] }

\* where the image that is not a single face stands: after one good image
BadPositions == {2}

\* the face_images lists of the signup requests: good ones, ones with the
\* wrong number of images, and ones with one image that is not a single face
FaceUploads ==
    GoodUploads
    \cup { [i \in 1..n |-> OneFace(<<5, 0, 0, 0, 0>>)] :
               n \in {NumFaceImages - 1, NumFaceImages + 1} }
    \cup { [i \in 1..NumFaceImages |->
               IF i = b THEN bad ELSE OneFace(<<5, 0, 0, 0, 0>>)] :
               b \in BadPositions, bad \in {NoFace, TwoFaces, Unreadable} }

RECURSIVE ColumnSum(_, _, _)
ColumnSum(embs, c, i) ==
    IF i > Len(embs) THEN 0 ELSE embs[i][c] + ColumnSum(embs, c, i + 1)

\* a mean that forgets to divide by the number of embeddings
np_mean_unscaled(embs) ==
    [c \in 1..Len(embs[1]) |-> ColumnSum(embs, c, 1)]

\* np.mean(face_embeddings, axis=0); the components drawn are multiples of
\* the number of images, so the division is exact
np_mean(embs) ==
    [c \in 1..Len(embs[1]) |-> ColumnSum(embs, c, 1) \div Len(embs)]

\* the first image the signup loop stops at, 0 when it runs through: with a
\* verifier, an image that is no single face; without one, none
FirstBadImage(images, loaded) ==
    LET bad == { i \in 1..Len(images) :
                   loaded /\ (~images[i].readable \/ Len(images[i].faces) # 1) }
    IN IF bad = {} THEN 0 ELSE CHOOSE i \in bad : \A j \in bad : i <= j

\* what a face image shows, for the record of the request: the number of
\* faces, -1 when it cannot be decoded
FacesShown(images) ==
    [i \in 1..Len(images) |-> IF images[i].readable THEN Len(images[i].faces) ELSE -1]

\* fastapi2.signup and fastapi2.login: `except HTTPException as he: raise
\* he`, then `except Exception` answers 500
signup_except(e) == IF e.http THEN e.status ELSE 500
login_except(e) == IF e.http THEN e.status ELSE 500

\* POST /api/signup.  The record written leaves out created_at, the time
\* of the request.
Signup ==
    /\ fastapi_up
    /\ pc = "idle"
    /\ \E u \in UserIds, email \in Emails, password \in Passwords, images \in FaceUploads :
         LET rec(status, saved) ==
                 [op |-> "signup", status |-> status, user_id |-> u,
                  faces |-> FacesShown(images),
                  saved |-> saved]
             b == FirstBadImage(images, verifier.loaded)
         IN
         IF Len(images) # NumFaceImages
         THEN \* rejected before anything is saved
              /\ last' = rec(signup_except(HTTPException(400)), {})
              /\ UNCHANGED <<face_embeddings, user_data_files, face_image_files>>
         ELSE IF b = 0
         THEN \* every image saved; the mean embedding and the record written
              /\ face_image_files' =
                     [face_image_files EXCEPT ![u] = @ \cup (1..NumFaceImages)]
              /\ face_embeddings' =
                     IF verifier.loaded
                     THEN [face_embeddings EXCEPT ![u] =
                              Some(np_mean([i \in 1..NumFaceImages |-> images[i].faces[1]]))]
                     ELSE face_embeddings
              /\ user_data_files' =
                     [user_data_files EXCEPT ![u] =
                         Some([user_id |-> u, username |-> "name", email |-> email,
                               password |-> password,
                               face_images_count |-> Len(images)])]
              /\ last' = rec(200, 1..NumFaceImages)
         ELSE IF ~images[b].readable
         THEN \* face_app.get(None) raises: images 1..b stay on disk
              /\ face_image_files' = [face_image_files EXCEPT ![u] = @ \cup (1..b)]
              /\ last' = rec(signup_except(OtherException), 1..b)
              /\ UNCHANGED <<face_embeddings, user_data_files>>
         ELSE \* no face or several: images 1..b are removed again
              /\ face_image_files' = [face_image_files EXCEPT ![u] = @ \ (1..b)]
              /\ last' = rec(signup_except(HTTPException(400)), 1..b)
              /\ UNCHANGED <<face_embeddings, user_data_files>>
    /\ UNCHANGED <<pipelineVars, benchVars, flaskVars>>

\* the records login's loop can stop at: UPLOAD_DIR.glob yields the files
\* in directory order, and the loop breaks at the first one whose email or
\* user_id is the identifier
LoginCandidates(identifier) ==
    { u \in UserIds :
        /\ user_data_files[u] # None
        /\ \/ user_data_files[u][1].email = identifier
           \/ user_data_files[u][1].user_id = identifier }

safe_user_data(user_data) ==
    [user_id |-> user_data.user_id, username |-> user_data.username,
     email |-> user_data.email]

\* POST /api/login
Login ==
    /\ fastapi_up
    /\ pc = "idle"
    /\ \E identifier \in UserIds \cup Emails, password \in Passwords :
         LET rec(status, body) ==
                 [op |-> "login", status |-> status, identifier |-> identifier,
                  password |-> password, user_data |-> body]
         IN
         IF LoginCandidates(identifier) = {}
         THEN last' = rec(login_except(HTTPException(404)), None)
         ELSE \E u \in LoginCandidates(identifier) :
                 LET user_data == user_data_files[u][1] IN
                 IF user_data.password # password
                 THEN last' = rec(login_except(HTTPException(401)), None)
                 ELSE last' = rec(200, Some(safe_user_data(user_data)))
    /\ UNCHANGED <<face_embeddings, user_data_files, face_image_files>>
    /\ UNCHANGED <<pipelineVars, benchVars, flaskVars>>

\* DELETE /api/user/{user_id}: removes the embedding (and a
\* {user_id}_signup.jpg, which signup never writes); the user record stays
DeleteUser ==
    /\ fastapi_up
    /\ pc = "idle"
    /\ \E u \in UserIds :
         IF face_embeddings[u] = None
         THEN /\ last' = [op |-> "delete_user", status |-> 404, user_id |-> u]
              /\ UNCHANGED face_embeddings
         ELSE /\ face_embeddings' = [face_embeddings EXCEPT ![u] = None]
              /\ last' = [op |-> "delete_user", status |-> 200, user_id |-> u]
    /\ UNCHANGED <<user_data_files, face_image_files>>
    /\ UNCHANGED <<pipelineVars, benchVars, flaskVars>>

\* POST /api/verify-task from request to answer, as the account files see
\* it: the handler writes and removes only its own uploads/task_<uuid>.jpg
VerifyTaskRequest ==
    /\ fastapi_up
    /\ pc = "idle"
    /\ \E tt \in TaskTypes, raised \in BOOLEAN :
         last' = [op |-> "verify_task", task_type |-> tt,
                  status |-> IF tt \notin valid_tasks
                             THEN verify_task_except(HTTPException(400))
                             ELSE IF ~verifier.loaded
                             THEN verify_task_except(HTTPException(503))
                             ELSE IF raised THEN verify_task_except(OtherException)
                             ELSE 200]
    /\ UNCHANGED <<face_embeddings, user_data_files, face_image_files>>
    /\ UNCHANGED <<pipelineVars, benchVars, flaskVars>>

NextAccounts ==
    \/ Startup
    \/ Signup
    \/ Login
    \/ DeleteUser
    \/ VerifyTaskRequest

SpecAccounts == Init /\ [][NextAccounts]_vars

\* ------------------------------------------- the Flask front ends: data

\* A Python dict is a function from its keys; an absent key is outside the
\* domain.
Has(d, k) == k \in DOMAIN d
Get(d, k, default) == IF k \in DOMAIN d THEN d[k] ELSE default
Put(d, k, v) == [x \in DOMAIN d \cup {k} |-> IF x = k THEN v ELSE d[x]]
Del(d, k) == IF DOMAIN d \ {k} = {} THEN EmptyDict ELSE [x \in DOMAIN d \ {k} |-> d[x]]

\* the usernames and user ids of the requests, with str.lower, str.strip and
\* len on them
FlaskNames == {"ab", "bob", "Bob", "bob "}

lower(s) == IF s = "Bob" THEN "bob" ELSE s
strip(s) == IF s = "bob " THEN "bob" ELSE s
len(s) == CASE s = "" -> 0 [] s = "ab" -> 2 [] s = "bob " -> 4 [] OTHER -> 3

\* the e-mail addresses of the requests; the last has no valid format, the
\* domain of the others resolves
FlaskEmails == {"a@x.org", "b@x.org", "a.x.org"}

validate_email_format(email) == email # "a.x.org"

StrongPassword == Repeat("a", 5) \o <<"A", "1", "!">>
OtherPassword == Repeat("A", 5) \o <<"a", "1", "!">>
WeakPassword == <<"a">>

\* hashlib.sha256(password.encode()).hexdigest()
sha256(password) == [sha256 |-> password]

\* get_all_users: the listing of the files in data/users
get_all_users == { users_dir[u] : u \in DOMAIN users_dir }

load_user_data(user_id) == IF Has(users_dir, user_id) THEN Some(users_dir[user_id]) ELSE None

\* save_user_data: {user_id}.json is opened for writing and replaced
save_user_data(dir, user_data) == Put(dir, user_data.user_id, user_data)

check_username_exists(username) ==
    \E user \in get_all_users : lower(user.username) = lower(username)

check_user_id_exists(user_id) ==
    \E user \in get_all_users : lower(user.user_id) = lower(user_id)

check_email_exists(email) ==
    \E user \in get_all_users : lower(user.email) = lower(email)

\* validate_email, with the DNS lookup of the domain succeeding
validate_email(email) ==
    IF email = "" THEN <<"Email is required">>
    ELSE IF ~validate_email_format(email) THEN <<"Invalid email format">>
    ELSE <<>>

\* validate_signup_data: the list of errors, empty when the data are valid
validate_signup_data(email, password, username, user_id) ==
    (IF validate_email(email) # <<>> THEN validate_email(email)
     ELSE IF check_email_exists(email) THEN <<"Email is already registered">>
     ELSE <<>>)
    \o (IF ~validate_password(password).valid
        THEN <<validate_password(password).message>> ELSE <<>>)
    \o (IF username = "" THEN <<"Username is required">>
        ELSE IF len(username) < 3 THEN <<"Username must be at least 3 characters long">>
        ELSE IF check_username_exists(username) THEN <<"Username is already taken">>
        ELSE <<>>)
    \o (IF user_id = "" THEN <<"User ID is required">>
        ELSE IF len(user_id) < 3 THEN <<"User ID must be at least 3 characters long">>
        ELSE IF check_user_id_exists(user_id) THEN <<"User ID is already taken">>
        ELSE <<>>)

\* no signup request is between its checks and its save
NoSignupInFlight == \A c \in Clients : inflight[c] = NoSignup

\* an action of the front end leaves the two back ends and the stage bench alone
OffFlask == <<pipelineVars, benchVars, accountVars>>

\* --------------------------------- the Flask front ends: name validation

\* POST /api/validate-username
ApiValidateUsername ==
    /\ NoSignupInFlight
    /\ \E value \in FlaskNames \cup {""} :
         LET username == strip(value)
             answer(valid, message) ==
                 [route |-> "api_validate_username", value |-> value,
                  valid |-> valid, message |-> message]
         IN
         reply' = IF username = "" THEN answer(FALSE, "Username is required")
                  ELSE IF len(username) < 3
                  THEN answer(FALSE, "Username must be at least 3 characters long")
                  ELSE IF check_username_exists(username)
                  THEN answer(FALSE, "Username is already taken")
                  ELSE answer(TRUE, "Username is available")
    /\ UNCHANGED <<flask, users_dir, session, inflight, camera, OffFlask>>

\* POST /api/validate-user-id
ApiValidateUserId ==
    /\ NoSignupInFlight
    /\ \E value \in FlaskNames \cup {""} :
         LET user_id == strip(value)
             answer(valid, message) ==
                 [route |-> "api_validate_user_id", value |-> value,
                  valid |-> valid, message |-> message]
         IN
         reply' = IF user_id = "" THEN answer(FALSE, "User ID is required")
                  ELSE IF len(user_id) < 3
                  THEN answer(FALSE, "User ID must be at least 3 characters long")
                  ELSE IF check_user_id_exists(user_id)
                  THEN answer(FALSE, "User ID is already taken")
                  ELSE answer(TRUE, "User ID is available")
    /\ UNCHANGED <<flask, users_dir, session, inflight, camera, OffFlask>>

\* ------------------------------------------- the Flask front ends: signup

\* str(i) of an image index
str(i) == <<"0", "1", "2", "3", "4", "5", "6", "7">>[i + 1]

\* the face_image_{i} form fields that arrive filled: none, four or all five
FormImages == { {}, 0..3, 0..4 }

\* the signup forms of the requests: every combination of the names and
\* addresses above, the form of one user with all its fields in order, and
\* the valid forms two parallel signups choose from
SignupForms ==
    [email : FlaskEmails, password : {StrongPassword, WeakPassword},
     username : FlaskNames, user_id : FlaskNames]
PlainForms ==
    { [email |-> "a@x.org", password |-> StrongPassword, username |-> "bob",
       user_id |-> "bob"] }

\* the files signup builds from a dict of face images: those of range(5)
\* whose str(i) is a key
SignupFiles(face_images_data) == { i \in 0..4 : Has(face_images_data, str(i)) }

RaceForms ==
    [email : {"a@x.org", "b@x.org"}, password : {StrongPassword},
     username : {"bob", "bob "}, user_id : {"bob", "Bob"}]

\* POST /signup up to the moment the request to the backend is sent:
\* validate_signup_data, the five-image check with its session fallback,
\* and the files built for the backend
SignupBegin(c, forms, fills) ==
    /\ inflight[c] = NoSignup
    /\ \E form \in forms, filled \in fills :
         LET email == form.email
             password == form.password
             username == form.username
             user_id == form.user_id
             errors == validate_signup_data(email, password, username, user_id)
             form_images == [k \in { str(i) : i \in filled } |-> "image"]
             session_images == Get(session[c], "face_images", EmptyDict)
             failure(messages) ==
                 /\ reply' = [route |-> "signup", client |-> c, success |-> FALSE,
                              messages |-> messages]
                 /\ UNCHANGED inflight
             send(face_images_data) ==
                 /\ inflight' =
                        [inflight EXCEPT ![c] =
                            [pending |-> TRUE, email |-> email, password |-> password,
                             username |-> username, user_id |-> user_id,
                             images |-> Cardinality(DOMAIN face_images_data),
                             files |-> SignupFiles(face_images_data)]]
                 /\ UNCHANGED reply
         IN
         IF errors # <<>> THEN failure(errors)
         ELSE IF Cardinality(filled) = 5 THEN send(form_images)
         ELSE IF Cardinality(DOMAIN session_images) = 5 THEN send(session_images)
         ELSE failure(<<"Please capture all 5 face images">>)
    /\ UNCHANGED <<flask, users_dir, session, camera, OffFlask>>

\* what the backend answers to a signup request: fastapi2 refuses a request
\* that does not carry exactly five face images
SignupAnswers(files) ==
    {"rejected", "ConnectionError", "Timeout"}
        \cup (IF Cardinality(files) = NumFaceImages THEN {"success"} ELSE {})

\* POST /signup from the answer of the backend on: the user file is
\* written and the session filled when the backend reports success
SignupCommit(c) ==
    /\ inflight[c] # NoSignup
    /\ \E answer \in SignupAnswers(inflight[c].files) :
         LET form == inflight[c]
             complete_user_data ==
                 [user_id |-> form.user_id, username |-> form.username,
                  email |-> form.email, password_hash |-> sha256(form.password),
                  eco_coins |-> 0, uploads |-> <<>>]
             s1 == Put(session[c], "user_id", form.user_id)
             s2 == Put(s1, "username", form.username)
             s3 == Put(s2, "email", form.email)
             s4 == Put(s3, "eco_coins", 0)
             s5 == Put(s4, "uploads", <<>>)
         IN
         IF answer = "success"
         THEN /\ users_dir' = save_user_data(users_dir, complete_user_data)
              /\ session' = [session EXCEPT ![c] = Del(s5, "face_images")]
              /\ reply' = [route |-> "signup", client |-> c, success |-> TRUE,
                           messages |-> <<"Account created successfully!">>]
         ELSE /\ reply' = [route |-> "signup", client |-> c, success |-> FALSE,
                           messages |-> <<answer>>]
              /\ UNCHANGED <<users_dir, session>>
    /\ inflight' = [inflight EXCEPT ![c] = NoSignup]
    /\ UNCHANGED <<flask, camera, OffFlask>>

\* ------------------------- the Flask front ends: login, logout and guests

\* the session after a successful local login or signup of this user
LoggedIn(s, user_id, username, email, eco_coins, uploads) ==
    Put(Put(Put(Put(Put(s, "user_id", user_id), "username", username),
                "email", email), "eco_coins", eco_coins), "uploads", uploads)

\* the records login's loop over get_all_users can stop at
LocalMatches(identifier) ==
    { user \in get_all_users : user.email = identifier \/ user.user_id = identifier }

\* POST /login: the local user files first, then the backend's /api/login
FlaskLogin(c) ==
    /\ NoSignupInFlight
    /\ \E identifier \in {"", "bob", "amy", "a@x.org"},
          password \in {StrongPassword, OtherPassword},
          backend \in {"success", "failure", "ConnectionError"} :
         LET answer(success, how) ==
                 [route |-> "login", client |-> c, success |-> success, how |-> how]
         IN
         IF identifier = ""
         THEN /\ reply' = answer(FALSE, "required")
              /\ UNCHANGED session
         ELSE IF LocalMatches(identifier) # {}
         THEN \E user_summary \in LocalMatches(identifier) :
                 LET local_user == load_user_data(user_summary.user_id)[1] IN
                 IF local_user.password_hash = sha256(password)
                 THEN /\ session' =
                            [session EXCEPT ![c] =
                                LoggedIn(@, local_user.user_id, local_user.username,
                                         local_user.email, local_user.eco_coins,
                                         local_user.uploads)]
                      /\ reply' = answer(TRUE, "local")
                 ELSE /\ reply' = answer(FALSE, "local")
                      /\ UNCHANGED session
         ELSE IF backend = "success"
         THEN /\ session' =
                     [session EXCEPT ![c] =
                         LoggedIn(@, identifier, identifier, "", 0, <<>>)]
              /\ reply' = answer(TRUE, "fastapi")
         ELSE /\ reply' = answer(FALSE, "fastapi")
              /\ UNCHANGED session
    /\ UNCHANGED <<flask, users_dir, inflight, camera, OffFlask>>

\* GET /logout: session.clear()
FlaskLogout(c) ==
    /\ NoSignupInFlight
    /\ session' = [session EXCEPT ![c] = EmptyDict]
    /\ reply' = [route |-> "logout", client |-> c]
    /\ UNCHANGED <<flask, users_dir, inflight, camera, OffFlask>>

\* GET /guest of flask_eco
continue_as_guest(c) ==
    /\ NoSignupInFlight
    /\ flask.app = "flask_eco"
    /\ session' =
           [session EXCEPT ![c] =
               Put(Put(Put(Put(@, "guest_mode", TRUE), "username", "Guest User"),
                       "eco_coins", 0), "uploads", <<>>)]
    /\ reply' = [route |-> "guest", client |-> c]
    /\ UNCHANGED <<flask, users_dir, inflight, camera, OffFlask>>

\* ------------------------------------------ the Flask front ends: uploads

\* the task image of a request: a file of an allowed type, no file, or a
\* file of another type
TaskFiles == {"photo.jpg", "", "notes.txt"}
allowed_file(filename) == filename = "photo.jpg"

\* what a verification service answers: a report with overall_valid true
\* or false, an error status, no connection, or nothing within the timeout
ServiceAnswers == {"valid", "invalid", "http_error", "ConnectionError", "Timeout"}

flask_app_valid_tasks == {"plantation", "waste_management", "stray_animal_feeding"}
flask_eco_valid_tasks == {"tree_planting", "waste_management", "stray_animal_feeding"}

points_map(tt) ==
    CASE tt = "plantation" -> 30
      [] tt = "waste_management" -> 20
      [] tt = "stray_animal_feeding" -> 15
      [] OTHER -> 10

eco_points_map(tt) ==
    CASE tt = "tree_planting" -> 30
      [] tt = "waste_management" -> 20
      [] tt = "stray_animal_feeding" -> 15
      [] OTHER -> 10

\* the session may take another upload within the bounds
RoomForUpload(s) ==
    /\ Len(Get(s, "uploads", <<>>)) < MaxUploads
    /\ Get(s, "eco_coins", 0) < MaxCoins

\* POST /upload/<task_type> of flask_app
upload_task(c) ==
    /\ NoSignupInFlight
    /\ flask.app = "flask_app"
    /\ RoomForUpload(session[c])
    /\ \E tt \in flask_app_valid_tasks \cup {"recycling"}, filename \in TaskFiles,
          service \in ServiceAnswers :
         LET answer(success, called) ==
                 [route |-> "upload_task", client |-> c, task_type |-> tt,
                  success |-> success,
                  service |-> IF called THEN service ELSE "not called",
                  face |-> "not checked"]
             points_earned == points_map(tt)
             uploads == Append(Get(session[c], "uploads", <<>>),
                               [task_type |-> tt, points |-> points_earned])
         IN
         IF ~Has(session[c], "user_id") \/ tt \notin flask_app_valid_tasks
            \/ ~allowed_file(filename)
         THEN /\ reply' = answer(FALSE, FALSE)
              /\ UNCHANGED session
         ELSE IF service = "valid"
         THEN /\ session' =
                     [session EXCEPT ![c] =
                         Put(Put(@, "eco_coins", Get(@, "eco_coins", 0) + points_earned),
                             "uploads", uploads)]
              /\ reply' = answer(TRUE, TRUE)
         ELSE /\ reply' = answer(FALSE, TRUE)
              /\ UNCHANGED session
    /\ UNCHANGED <<flask, users_dir, inflight, camera, OffFlask>>

\* what the face check meets in the task image: a face of the user, only
\* other faces, no face, or an image the libraries fail on
FaceChecks == {"user", "stranger", "no face", "fault"}

\* verify_face_opencv_fallback: any detected face passes, and so does a
\* failure of the detection
verify_face_opencv_fallback(face) ==
    CASE face = "fault" ->
             [verified |-> TRUE,
              message |-> "Face verification unavailable - proceeding without face check"]
      [] face = "no face" ->
             [verified |-> FALSE, message |-> "No faces detected in the uploaded image"]
      [] OTHER ->
             [verified |-> TRUE, message |-> "Face detected in uploaded image"]

\* verify_user_face_in_image; the registered face images of a user that
\* signed up are on disk
verify_user_face_in_image(user_id, face) ==
    IF ~flask.FACE_RECOGNITION_AVAILABLE THEN verify_face_opencv_fallback(face)
    ELSE IF load_user_data(user_id) = None
    THEN [verified |-> FALSE, message |-> "No registered face images found for user"]
    ELSE CASE face = "fault" ->
                  [verified |-> FALSE, message |-> "Face verification error"]
           [] face = "no face" ->
                  [verified |-> FALSE,
                   message |-> "No faces detected in the uploaded image"]
           [] face = "stranger" ->
                  [verified |-> FALSE,
                   message |-> "User face not found in the uploaded image"]
           [] OTHER ->
                  [verified |-> TRUE,
                   message |-> "User face verified in the uploaded image"]

\* the request comes from a user that is logged in and not browsing as a guest
Authenticated(s) == Has(s, "user_id") /\ ~Get(s, "guest_mode", FALSE)

\* POST /api/verify-task of flask_eco
eco_verify_task(c) ==
    /\ NoSignupInFlight
    /\ flask.app = "flask_eco"
    /\ RoomForUpload(session[c])
    /\ \E tt \in flask_eco_valid_tasks \cup {"", "recycling"}, filename \in TaskFiles,
          face \in FaceChecks, service \in ServiceAnswers :
         LET s == session[c]
             checked == Authenticated(s)
             answer(success, called) ==
                 [route |-> "verify_task", client |-> c, task_type |-> tt,
                  success |-> success,
                  service |-> IF called THEN service ELSE "not called",
                  face |-> IF checked /\ tt \in flask_eco_valid_tasks
                              /\ allowed_file(filename)
                           THEN face ELSE "not checked"]
             points_earned == eco_points_map(tt)
             eco_coins == Get(s, "eco_coins", 0) + points_earned
             uploads == Append(Get(s, "uploads", <<>>),
                               [task_type |-> tt, points |-> points_earned])
             user_data == load_user_data(s["user_id"])
         IN
         IF tt \notin flask_eco_valid_tasks \/ ~allowed_file(filename)
         THEN /\ reply' = answer(FALSE, FALSE)
              /\ UNCHANGED <<session, users_dir>>
         ELSE IF checked /\ ~verify_user_face_in_image(s["user_id"], face).verified
         THEN /\ reply' = answer(FALSE, FALSE)
              /\ UNCHANGED <<session, users_dir>>
         ELSE IF service # "valid"
         THEN /\ reply' = answer(FALSE, TRUE)
              /\ UNCHANGED <<session, users_dir>>
         ELSE IF checked
         THEN /\ session' =
                     [session EXCEPT ![c] =
                         Put(Put(@, "eco_coins", eco_coins), "uploads", uploads)]
              /\ users_dir' =
                     IF user_data = None THEN users_dir
                     ELSE save_user_data(users_dir,
                              [user_data[1] EXCEPT !.eco_coins = eco_coins,
                                                   !.uploads = uploads])
              /\ reply' = answer(TRUE, TRUE)
         ELSE IF Get(s, "guest_mode", FALSE)
         THEN /\ session' = [session EXCEPT ![c] = Put(@, "eco_coins", eco_coins)]
              /\ reply' = answer(TRUE, TRUE)
              /\ UNCHANGED users_dir
         ELSE /\ reply' = answer(TRUE, TRUE)
              /\ UNCHANGED <<session, users_dir>>
    /\ UNCHANGED <<flask, inflight, camera, OffFlask>>

\* the requests of one client, one after another, to a front end
NextFlask ==
    \/ SignupBegin("c1", PlainForms, {0..4})
    \/ SignupCommit("c1")
    \/ FlaskLogin("c1")
    \/ FlaskLogout("c1")
    \/ continue_as_guest("c1")
    \/ upload_task("c1")
    \/ eco_verify_task("c1")

InitFlask ==
    /\ PipelineInit
    /\ BenchIdle
    /\ AccountsInit
    /\ FlaskInit({"flask_app", "flask_eco"})

SpecFlask == InitFlask /\ [][NextFlask]_vars

\* signups and name checks of one client, one after another
NextNames ==
    \/ SignupBegin("c1", SignupForms, {0..4})
    \/ SignupCommit("c1")
    \/ ApiValidateUsername
    \/ ApiValidateUserId

InitNames ==
    /\ PipelineInit
    /\ BenchIdle
    /\ AccountsInit
    /\ FlaskIdle

SpecNames == InitNames /\ [][NextNames]_vars

\* ----------------------------- the Flask front ends: camera, face images

\* GET /start_camera: a camera is created only when there is none
start_camera ==
    /\ NoSignupInFlight
    /\ \E opened \in BOOLEAN :
         IF camera = None
         THEN /\ camera' = Some(opened)
              /\ reply' = [route |-> "start_camera", success |-> opened]
         ELSE /\ reply' = [route |-> "start_camera", success |-> TRUE]
              /\ UNCHANGED camera
    /\ UNCHANGED <<flask, users_dir, session, inflight, OffFlask>>

\* GET /capture_frame
capture_frame ==
    /\ NoSignupInFlight
    /\ \E ret \in BOOLEAN :
         reply' = [route |-> "capture_frame",
                   success |-> camera # None /\ camera[1] /\ ret]
    /\ UNCHANGED <<flask, users_dir, session, inflight, camera, OffFlask>>

\* GET /stop_camera
stop_camera ==
    /\ NoSignupInFlight
    /\ camera' = None
    /\ reply' = [route |-> "stop_camera", success |-> TRUE]
    /\ UNCHANGED <<flask, users_dir, session, inflight, OffFlask>>

\* the image_index of a save_face_image request: a JSON number, or a JSON
\* string holding a number
ImageIndexes ==
    { [json |-> "number", v |-> i] : i \in 0..MaxImageIndex }
        \cup { [json |-> "string", v |-> 3] }

\* the image_data of a request: a JPEG in base64, nothing, or bytes that
\* are no image
ImageData == {"jpeg", "", "garbage"}

\* the keys of the face images a session holds
FaceKeys(s) == DOMAIN Get(s, "face_images", EmptyDict)

\* POST /save_face_image: the image is stored under str(image_index) before
\* the answer is built, and building it adds 1 to image_index
save_face_image(c) ==
    /\ NoSignupInFlight
    /\ \E image_data \in ImageData, image_index \in ImageIndexes :
         LET stored == Put(Get(session[c], "face_images", EmptyDict),
                           str(image_index.v), "image")
         IN
         IF image_data # "jpeg"
         THEN /\ reply' = [route |-> "save_face_image", client |-> c,
                           success |-> FALSE, image_index |-> image_index]
              /\ UNCHANGED session
         ELSE /\ session' = [session EXCEPT ![c] = Put(@, "face_images", stored)]
              /\ reply' =
                     IF image_index.json = "number"
                     THEN [route |-> "save_face_image", client |-> c,
                           success |-> TRUE, image_index |-> image_index,
                           images_count |-> Cardinality(DOMAIN stored)]
                     ELSE [route |-> "save_face_image", client |-> c,
                           success |-> FALSE, image_index |-> image_index]
    /\ UNCHANGED <<flask, users_dir, inflight, camera, OffFlask>>

\* GET /get_face_images_count
get_face_images_count(c) ==
    /\ NoSignupInFlight
    /\ reply' = [route |-> "get_face_images_count", client |-> c,
                 count |-> Cardinality(FaceKeys(session[c]))]
    /\ UNCHANGED <<flask, users_dir, session, inflight, camera, OffFlask>>

\* POST /clear_face_images
clear_face_images(c) ==
    /\ NoSignupInFlight
    /\ session' = [session EXCEPT ![c] = Del(@, "face_images")]
    /\ reply' = [route |-> "clear_face_images", client |-> c, success |-> TRUE]
    /\ UNCHANGED <<flask, users_dir, inflight, camera, OffFlask>>

\* one client capturing its face images and signing up
NextCapture ==
    \/ start_camera
    \/ capture_frame
    \/ stop_camera
    \/ save_face_image("c1")
    \/ get_face_images_count("c1")
    \/ clear_face_images("c1")
    \/ SignupBegin("c1", PlainForms, FormImages)
    \/ SignupCommit("c1")

SpecCapture == InitNames /\ [][NextCapture]_vars

\* -------------------------------- the Flask front ends: parallel signups

\* the development server handles each request in a thread of its own, so
\* the signups of two clients interleave between the checks and the save
NextSignups ==
    \E c \in Clients :
        \/ SignupBegin(c, RaceForms, {0..4})
        \/ SignupCommit(c)

SpecSignups == InitNames /\ [][NextSignups]_vars

\* ------------------------------------------------------------- properties

StepValid(i) == results.steps[i].result.is_valid
StepNames == [i \in 1..Len(results.steps) |-> results.steps[i].name]
AllStepsValid == \A i \in 1..Len(results.steps) : StepValid(i)
IsPrefix(s, t) == Len(s) <= Len(t) /\ \A i \in 1..Len(s) : s[i] = t[i]

\* the pipeline has handed its report to its caller
ReportReturned ==
    /\ pipeline # "none"
    /\ \/ pc = "returned"
       \/ pc = "responded" /\ "body" \in DOMAIN response

\* the entry of the capture-time stage, when the report has one
ExifEntries == { i \in 1..Len(results.steps) : results.steps[i].name = "exif_verification" }

\* C1: in the three pipelines (full_verification, anonymous_verification,
\* verify_waste) an invalid stage result is the last entry of steps, and no
\* stage function has been called after the one that answered it.
C1_ShortCircuit ==
    \A i \in 1..Len(results.steps) :
        ~StepValid(i) => i = Len(results.steps) /\ Len(calls) = i

C1_Witness ==
    /\ pipeline = "waste" /\ pc = "responded"
    /\ Len(results.steps) = 2 /\ ~StepValid(2)

\* C2: in every returned report, overall_valid is true exactly when every
\* entry of steps is valid.
C2_OverallValidIffAllValid ==
    ReportReturned => (results.overall_valid <=> AllStepsValid)

C2_Witness ==
    /\ pipeline = "full" /\ pc = "returned"
    /\ results.overall_valid /\ Len(results.steps) = 4

\* C3 as stated: at most 4 entries for full_verification, at most 3 for
\* anonymous_verification, and the first invalid entry is the last one.
C3_AnonymousAtMostThree ==
    /\ pipeline = "full" => Len(results.steps) <= 4
    /\ pipeline = "anonymous" => Len(results.steps) <= 3
    /\ \A i \in 1..Len(results.steps) : ~StepValid(i) => i = Len(results.steps)

\* C3 as amended: at most 4 entries in both pipelines; the anonymous
\* pipeline calls at most 3 stage functions and its fourth entry is the
\* always-valid placeholder; the first invalid entry is the last one.
C3_AtMostFour ==
    /\ pipeline \in {"full", "anonymous"} => Len(results.steps) <= 4
    /\ pipeline = "anonymous" =>
          /\ Len(calls) <= 3
          /\ Len(results.steps) = 4 => results.steps[4].result = face_placeholder
    /\ \A i \in 1..Len(results.steps) :
          (~StepValid(i) /\ \A j \in 1..(i - 1) : StepValid(j)) => i = Len(results.steps)

C3_Witness ==
    /\ pipeline = "anonymous" /\ pc = "returned"
    /\ Len(results.steps) = 4

\* C4: the stage functions are called in the order ai_detection,
\* exif_verification, activity_verification, face_verification, each at most
\* once and none skipped; a stage is called only when every earlier stage
\* has an entry that is valid; the entries of steps are in the same order.
C4_Order == <<"ai_detection", "exif_verification", "activity_verification",
              "face_verification">>

C4_FixedStageOrder ==
    /\ IsPrefix(calls, C4_Order)
    /\ IsPrefix(StepNames, C4_Order)
    /\ \A k \in 1..Len(calls) : \A j \in 1..(k - 1) :
          j <= Len(results.steps) /\ StepValid(j)

C4_Witness ==
    /\ pipeline = "full" /\ pc = "returned"
    /\ calls = C4_Order /\ StepNames = C4_Order

\* C5: every report returned by full_verification and anonymous_verification
\* has the keys overall_valid, message and steps, and when an entry is
\* invalid the top-level message is that entry's message.
C5_ReportCarriesMessage ==
    (ReportReturned /\ pipeline \in {"full", "anonymous"}) =>
        /\ {"overall_valid", "message", "steps"} \subseteq DOMAIN results
        /\ \A i \in 1..Len(results.steps) :
              ~StepValid(i) => results.message = results.steps[i].result.message

\* C6: full_verification and anonymous_verification never end by raising.
C6_PipelineNeverRaises ==
    pipeline \in {"full", "anonymous"} => pc # "raised"

\* C7: when verify_task or verify_waste has answered, the uploaded file it
\* wrote is no longer on disk.
C7_UploadRemoved ==
    (handler \in {"verify_task", "verify_waste"} /\ pc = "responded") =>
        tempFile # "exists"

\* C8: a well-formed request to verify_task with verifier None, or to
\* verify_waste with waste_model None, is answered 503, with no stage
\* called and no report in the answer.
C8_UnavailableIs503 ==
    /\ (handler = "verify_task" /\ pc = "responded" /\ ~verifier.loaded
          /\ task_type \in valid_tasks) =>
          response.status = 503 /\ calls = <<>> /\ "body" \notin DOMAIN response
    /\ (handler = "verify_waste" /\ pc = "responded" /\ ~waste_model) =>
          response.status = 503 /\ calls = <<>> /\ "body" \notin DOMAIN response

\* C9: a capture time more than 7 days (by however little) before the
\* validation time is rejected by the capture-time stage.
C9_OlderThanSevenDaysRejected ==
    \A i \in ExifEntries :
        LET r == results.steps[i].result IN
        (r.capture_time # None /\ now - r.capture_time[1] > 7 * SecondsPerDay)
            => ~r.is_valid

\* C10: a capture time after the validation time is rejected; a capture
\* time 0 seconds to 6 days 23:59:59 old is accepted, and the message gives
\* the age in whole days.
C10_FutureRejectedRecentAccepted ==
    \A i \in ExifEntries :
        LET r == results.steps[i].result IN
        r.capture_time # None =>
            LET age == now - r.capture_time[1] IN
            /\ age < 0 => ~r.is_valid
            /\ (0 <= age /\ age <= 7 * SecondsPerDay - 1) =>
                  /\ r.is_valid
                  /\ r.message.text = "Image timestamp valid"
                  /\ r.message.arg * SecondsPerDay <= age
                  /\ age < (r.message.arg + 1) * SecondsPerDay

C10_Witness ==
    \E i \in ExifEntries :
        LET r == results.steps[i].result IN
        /\ r.capture_time # None
        /\ now - r.capture_time[1] = 7 * SecondsPerDay - 1
        /\ r.is_valid /\ r.message.arg = 6

\* --------------------------------------------- the stages on their own

Returned == out # NotRun

\* an unexpected failure the capture-time stage runs into: the file cannot
\* be opened, or its timestamp does not parse
ExifFault(a) ==
    \/ a.exif.kind = "error"
    \/ a.exif.kind = "tag" /\ strptime(a.exif) = None

\* one the activity stage runs into: the image read or the detector throws
ActivityFault(a) == a.task_type \in valid_tasks /\ a.det.throws

\* some face of crop b reaches the threshold against the reference
CropMatches(a, b) ==
    \E k \in 1..Len(a.fin.crops[b].faces) :
        SimAtLeast(_compute_similarity(a.ref, a.fin.crops[b].faces[k]),
                   similarity_threshold)

\* one the face stage runs into: the image read throws, the image is None
\* when the box loop starts, or face extraction throws on a crop that no
\* match precedes
FaceFault(a) ==
    \/ a.fin.open = "throws"
    \/ a.fin.open = "none" /\ a.person_boxes # <<>>
    \/ /\ a.fin.open = "ok"
       /\ \E b \in 1..Len(a.fin.crops) :
              /\ a.fin.crops[b].throws
              /\ \A c \in 1..(b - 1) : ~CropMatches(a, c)

\* C11: verify_exif_datetime, verify_activity and verify_face never raise,
\* and an unexpected failure inside one of them comes back as a result with
\* is_valid = false and the stage's error message
C11_StageFaultsAreRejections ==
    (Returned /\ fn \in {"verify_exif_datetime", "verify_activity", "verify_face"}) =>
        /\ ~IsRaised(out)
        /\ (fn = "verify_exif_datetime" /\ ExifFault(arg)) =>
               /\ out.is_valid = FALSE
               /\ out.message.text = "EXIF verification failed"
        /\ (fn = "verify_activity" /\ ActivityFault(arg)) =>
               /\ out.is_valid = FALSE
               /\ out.message.text = "Activity verification error"
        /\ (fn = "verify_face" /\ FaceFault(arg)) =>
               /\ out.is_valid = FALSE
               /\ out.message.text = "Face verification error"

\* face extraction threw on the second crop, after a first crop whose face
\* did not match, and the stage answered with its error result
C11_Witness ==
    /\ Returned
    /\ fn = "verify_face"
    /\ arg.fin.open = "ok"
    /\ Len(arg.fin.crops) = 2
    /\ arg.fin.crops[1].faces # <<>>
    /\ arg.fin.crops[2].throws
    /\ out = FaceError

\* the classifier path is not taken or fails: no classifier, or it throws
AiFallback(a) == ~a.detector_loaded \/ a.cls.throws

\* C12: verify_ai_image (fastapi2 and waste_api) never raises; without a
\* working classifier its result is the Laplacian heuristic's (rejected below
\* variance 50, accepted from 50 on), and valid when the heuristic fails
C12_AiImageNeverRaises ==
    (Returned /\ fn \in {"verify_ai_image", "waste_verify_ai_image"}) =>
        /\ ~IsRaised(out)
        /\ (AiFallback(arg) /\ arg.lap.throws) => out.is_valid = TRUE
        /\ (AiFallback(arg) /\ ~arg.lap.throws) =>
               out.is_valid = (arg.lap.var >= LaplacianThreshold)

\* C13: verify_activity with an unknown task_type answers is_valid = false
\* with no detected classes and no person boxes, has read no image and run
\* no detector, and does not raise
C13_UnknownTaskRejectedAtOnce ==
    (Returned /\ fn = "verify_activity" /\ arg.task_type \notin valid_tasks) =>
        /\ ~IsRaised(out)
        /\ out.is_valid = FALSE
        /\ out.detected_classes = {}
        /\ out.person_boxes = <<>>
        /\ ext = <<>>

\* an unknown task_type on an image in which a detector would find something
C13_Witness ==
    /\ Returned
    /\ fn = "verify_activity"
    /\ arg.task_type = "recycling"
    /\ arg.det.boxes # <<>>
    /\ out.message.text = "Invalid task type"

\* the detections of a above 0.5 and their labels
KeptDetections(a) ==
    { i \in 1..Len(a.det.boxes) : a.det.boxes[i].conf > ConfidenceThreshold }
KeptLabels(a) == { a.det.boxes[i].cls : i \in KeptDetections(a) }
KeptPersons(a) == { i \in KeptDetections(a) : a.det.boxes[i].cls = "person" }

FaceMatches(a) ==
    { <<b, k>> \in (1..Len(a.fin.crops)) \X (1..MaxFaces + 1) :
        /\ k <= Len(a.fin.crops[b].faces)
        /\ SimAtLeast(_compute_similarity(a.ref, a.fin.crops[b].faces[k]),
                      similarity_threshold) }

\* those the box loop gets to: the image was read and face extraction threw
\* on no crop up to theirs
ReachedMatches(a) ==
    { m \in FaceMatches(a) :
        /\ a.fin.open = "ok"
        /\ \A c \in 1..m[1] : ~a.fin.crops[c].throws }

\* m comes first in box order, then face order
Earliest(m, ms) ==
    \A g \in ms : m[1] < g[1] \/ (m[1] = g[1] /\ m[2] <= g[2])

\* C15 as stated: verify_face accepts exactly when some face of some crop
\* reaches 0.35, reports the first such match, and rejects otherwise with
\* 'registered user not found'
C15_RejectsWithNotFound ==
    (Returned /\ fn = "verify_face") =>
        /\ out.is_valid = (FaceMatches(arg) # {})
        /\ out.is_valid =>
             \E m \in FaceMatches(arg) :
                 /\ Earliest(m, FaceMatches(arg))
                 /\ out.matched_person = Some(m[1])
                 /\ out.similarity
                        = _compute_similarity(arg.ref, arg.fin.crops[m[1]].faces[m[2]])
        /\ ~out.is_valid =>
             out.message.text
                 = "Face verification failed: Registered user not found in image"

\* C15, amended: verify_face accepts exactly when the box loop gets to a
\* face that reaches 0.35 and then reports the first such match in box order
\* then face order; crops without a face are skipped; it rejects with
\* 'registered user not found' when the loop ends without a match, with 'No
\* persons detected' when there are no person boxes, and with its error
\* message after a failure
C15_FirstMatchWins ==
    (Returned /\ fn = "verify_face") =>
        /\ out.is_valid = (ReachedMatches(arg) # {})
        /\ out.is_valid =>
             \E m \in ReachedMatches(arg) :
                 /\ Earliest(m, ReachedMatches(arg))
                 /\ out.matched_person = Some(m[1])
                 /\ out.similarity
                        = _compute_similarity(arg.ref, arg.fin.crops[m[1]].faces[m[2]])
        /\ ~out.is_valid =>
             out.message.text
                 = IF FaceFault(arg) THEN "Face verification error"
                   ELSE IF arg.person_boxes = <<>> THEN "No persons detected in image"
                   ELSE "Face verification failed: Registered user not found in image"

\* the first crop shows no face, the second a face at exactly 0.35 followed
\* by a face at 1.0: person 2 is reported with similarity 7 / 20
C15_Witness ==
    /\ Returned
    /\ fn = "verify_face"
    /\ arg.ref = <<1, 0, 0, 0, 0>>
    /\ arg.fin.open = "ok"
    /\ Len(arg.fin.crops) = 2
    /\ arg.fin.crops[1] = [throws |-> FALSE, faces |-> <<>>]
    /\ arg.fin.crops[2].faces = << <<7, 18, 5, 1, 1>>, <<2, 0, 0, 0, 0>> >>
    /\ out.is_valid
    /\ out.matched_person = Some(2)
    /\ out.similarity = [num |-> 7, den2 |-> 400]

C17_AnonymousPlaceholder ==
    pipeline = "anonymous" =>
        /\ \A i \in 1..Len(calls) : calls[i] # "face_verification"
        /\ (/\ ReportReturned
            /\ Len(results.steps) >= 3
            /\ \A i \in 1..3 : StepValid(i)) =>
               /\ results.overall_valid
               /\ Len(results.steps) = 4
               /\ results.steps[4].name = "face_verification"
               /\ results.steps[4].result.is_valid
               /\ results.steps[4].result.message.text
                      = "Face verification skipped for anonymous usage"
               /\ results.steps[4].result.similarity = SimOne

\* verify_task has answered with the report of an anonymous run that passed
C17_Witness ==
    /\ pipeline = "anonymous"
    /\ pc = "responded"
    /\ "body" \in DOMAIN response
    /\ results.overall_valid
    /\ Len(calls) = 3
    /\ StepNames[4] = "face_verification"

\* ------------------------------------------------------------ the accounts

WellFormedSignup(r) ==
    /\ Len(r.faces) = NumFaceImages
    /\ verifier.loaded => \A i \in 1..Len(r.faces) : r.faces[i] = 1

\* C19: a signup succeeds only when it is well formed; any other signup is
\* answered 400, writes no embedding and no user record, and none of the
\* face image files it saved is on disk afterwards
C19_SignupAllOrNothing ==
    [][ last'.op = "signup" =>
          /\ last'.status = 200 => WellFormedSignup(last')
          /\ ~WellFormedSignup(last') =>
                /\ last'.status = 400
                /\ face_embeddings' = face_embeddings
                /\ user_data_files' = user_data_files
                /\ last'.saved \cap face_image_files'[last'.user_id] = {} ]_vars

\* the stored records whose email or user_id is the identifier of r
RecordsMatching(r) ==
    { u \in UserIds :
        /\ user_data_files[u] # None
        /\ \/ user_data_files[u][1].email = r.identifier
           \/ user_data_files[u][1].user_id = r.identifier }

\* C20: a login succeeds exactly when some stored record matches the
\* identifier by email or user_id and holds the password supplied; it is
\* answered 404 when no record matches and 401 when the password differs,
\* and the user_data of a success has no password
C20_LoginIffCredentials ==
    last.op = "login" =>
        /\ (last.status = 200)
               = (\E u \in RecordsMatching(last) :
                      user_data_files[u][1].password = last.password)
        /\ RecordsMatching(last) = {} => last.status = 404
        /\ (RecordsMatching(last) # {} /\ last.status # 200) => last.status = 401
        /\ last.status = 200 => "password" \notin DOMAIN last.user_data[1]

\* ------------------------------------------------------------------- C21

\* the rules of the password policy in the order they are reported, each
\* with whether the password breaks it
PasswordRules(password) ==
    << [broken |-> Len(password) = 0, message |-> "Password is required"],
       [broken |-> Len(password) < 8,
        message |-> "Password must be at least 8 characters long"],
       [broken |-> \A i \in 1..Len(password) : password[i] # "A",
        message |-> "Password must contain at least one uppercase letter"],
       [broken |-> \A i \in 1..Len(password) : password[i] # "a",
        message |-> "Password must contain at least one lowercase letter"],
       [broken |-> \A i \in 1..Len(password) : password[i] # "1",
        message |-> "Password must contain at least one number"],
       [broken |-> \A i \in 1..Len(password) : password[i] # "!",
        message |-> "Password must contain at least one special character"] >>

BrokenRules(password) ==
    { i \in 1..Len(PasswordRules(password)) : PasswordRules(password)[i].broken }

\* C21: validate_password accepts a password exactly when it has at least 8
\* characters and holds a letter of A-Z, a letter of a-z, a digit and a
\* character of the listed special set; the message of a rejection is that
\* of the first broken rule in the order required, length, uppercase,
\* lowercase, digit, special character.
C21_PasswordPolicy ==
    (fn = "validate_password" /\ out # NotRun) =>
        /\ out.valid <=> BrokenRules(arg) = {}
        /\ ~out.valid =>
            \E i \in BrokenRules(arg) :
                /\ \A j \in BrokenRules(arg) : i <= j
                /\ out.message = PasswordRules(arg)[i].message

\* a password of eight characters or more that breaks the lowercase rule
\* and no other has been judged
C21_Witness ==
    /\ fn = "validate_password"
    /\ out # NotRun
    /\ Len(arg) >= 8
    /\ BrokenRules(arg) = {4}

\* ------------------------------------------------------------------- C23

\* C23: once DELETE /api/user/{user_id} has answered success the embedding
\* of that user is gone and a login with the user's id or e-mail that
\* follows it answers 404 'User not found'; a delete answered 404 leaves
\* every file as it was.
C23_DeletedUserIsGone ==
    [][ /\ (last'.op = "delete_user" /\ last'.status = 200) =>
               face_embeddings'[last'.user_id] = None
        /\ (last'.op = "delete_user" /\ last'.status = 404) =>
               UNCHANGED <<face_embeddings, user_data_files, face_image_files>>
        /\ ( /\ last.op = "delete_user"
             /\ last.status = 200
             /\ last'.op = "login"
             /\ \/ last'.identifier = last.user_id
                \/ /\ user_data_files[last.user_id] # None
                   /\ last'.identifier = user_data_files[last.user_id][1].email ) =>
               last'.status = 404 ]_vars

\* ------------------------------------------------------------------- C22

\* C22: the username check reports a value valid exactly when it has at
\* least 3 characters and no registered user has that username, compared
\* without regard to case, and a value that is the username of a registered
\* user is reported as taken; the user-id check does the same on user ids.
C22_NameAvailability ==
    /\ reply.route = "api_validate_username" =>
           /\ reply.valid <=>
                  /\ len(reply.value) >= 3
                  /\ \A user \in get_all_users :
                         lower(user.username) # lower(reply.value)
           /\ (\E user \in get_all_users : user.username = reply.value) =>
                  /\ ~reply.valid
                  /\ reply.message = "Username is already taken"
    /\ reply.route = "api_validate_user_id" =>
           /\ reply.valid <=>
                  /\ len(reply.value) >= 3
                  /\ \A user \in get_all_users :
                         lower(user.user_id) # lower(reply.value)
           /\ (\E user \in get_all_users : user.user_id = reply.value) =>
                  /\ ~reply.valid
                  /\ reply.message = "User ID is already taken"

\* ------------------------------------------------------------------- C24

\* C24: get_face_images_count answers the number of image indices the
\* session holds; a save_face_image request that is answered success adds
\* its index to them (an index already held leaves the number as it was),
\* one that is answered failure adds nothing, and clear_face_images leaves
\* none.
C24_CountOfSavedIndices ==
    [][ /\ reply'.route = "get_face_images_count" =>
               reply'.count = Cardinality(FaceKeys(session'[reply'.client]))
        /\ (reply'.route = "save_face_image" /\ <<reply, session>>' # <<reply, session>>) =>
               FaceKeys(session'[reply'.client]) =
                   IF reply'.success
                   THEN FaceKeys(session[reply'.client]) \cup {str(reply'.image_index.v)}
                   ELSE FaceKeys(session[reply'.client])
        /\ reply'.route = "clear_face_images" =>
               FaceKeys(session'[reply'.client]) = {} ]_vars

\* ------------------------------------------------------------------- C27

\* C27: a signup request that has passed the five-face-image check is sent
\* to the backend with exactly five face_images files, whether the images
\* came from the form fields or from the session.
C27_FiveFilesSent ==
    \A c \in Clients :
        inflight[c] # NoSignup => Cardinality(inflight[c].files) = 5

\* ------------------------------------------------------------------- C28

\* two user files that belong to different users: no user id, username or
\* e-mail address in common, compared without regard to case
DistinctUsers(a, b) ==
    /\ lower(a.user_id) # lower(b.user_id)
    /\ lower(a.username) # lower(b.username)
    /\ lower(a.email) # lower(b.email)

\* C28: however signup requests interleave, a user file once written is
\* never replaced by a later signup, and no two user files share a user id,
\* a username or an e-mail address.
C28_OneSignupPerIdentity ==
    [][ /\ \A u \in DOMAIN users_dir :
               u \in DOMAIN users_dir' /\ users_dir'[u] = users_dir[u]
        /\ \A u, v \in DOMAIN users_dir' :
               u # v => DistinctUsers(users_dir'[u], users_dir'[v]) ]_vars

\* ------------------------------------------------------------------- C29

\* C29: start_camera and capture_frame answer success only while the
\* global camera is there and opened, and after stop_camera there is no
\* camera.
C29_CameraHandle ==
    /\ (reply.route \in {"start_camera", "capture_frame"} /\ reply.success) =>
           camera = Some(TRUE)
    /\ reply.route = "stop_camera" => camera = None

\* ------------------------------------------------------------------- C25

\* the eco-coins of a verified task
TaskPoints(tt) ==
    CASE tt \in {"plantation", "tree_planting"} -> 30
      [] tt = "waste_management" -> 20
      [] tt = "stray_animal_feeding" -> 15

\* a step that answers an upload request of client c
UploadStep(c) ==
    /\ reply'.route \in {"upload_task", "verify_task"}
    /\ reply'.client = c
    /\ <<reply, session>>' # <<reply, session>>

\* C25: an upload request of a logged-in user adds the points of the task
\* to the session's eco_coins and one entry to its uploads when the
\* verification service reported overall_valid true, and leaves both as
\* they were on every other outcome.
C25_CoinsIffVerified ==
    [][ \A c \in Clients :
          (UploadStep(c) /\ Has(session[c], "user_id")) =>
              LET eco_coins == Get(session[c], "eco_coins", 0)
                  uploads == Get(session[c], "uploads", <<>>)
              IN
              IF reply'.service = "valid"
              THEN /\ session'[c]["eco_coins"] = eco_coins + TaskPoints(reply'.task_type)
                   /\ Len(session'[c]["uploads"]) = Len(uploads) + 1
                   /\ SubSeq(session'[c]["uploads"], 1, Len(uploads)) = uploads
              ELSE /\ Get(session'[c], "eco_coins", 0) = eco_coins
                   /\ Get(session'[c], "uploads", <<>>) = uploads ]_vars

\* ------------------------------------------------------------------- C26

\* C26: when the face check of a logged-in user fails unexpectedly, the
\* request is refused: the image is not sent to a verification service and
\* the request does not succeed.
C26_FaceFaultRejects ==
    (reply.route = "verify_task" /\ reply.face = "fault") =>
        /\ reply.service = "not called"
        /\ ~reply.success

\* ------------------------------------------------------------------- C30

\* the eco_coins and uploads a session gets when this user logs in afresh
AfterRelogin(user_id) ==
    LoggedIn(EmptyDict, user_id, users_dir[user_id].username,
             users_dir[user_id].email, users_dir[user_id].eco_coins,
             users_dir[user_id].uploads)

\* C30: right after a verified upload of a user that has a user file, the
\* eco_coins and uploads of the session are those a logout followed by a
\* login of that user gives.
C30_CoinsSurviveRelogin ==
    ( /\ reply.route \in {"upload_task", "verify_task"}
      /\ reply.success
      /\ Has(session[reply.client], "user_id")
      /\ Has(users_dir, session[reply.client]["user_id"]) ) =>
        LET s == session[reply.client] IN
        /\ AfterRelogin(s["user_id"])["eco_coins"] = s["eco_coins"]
        /\ AfterRelogin(s["user_id"])["uploads"] = s["uploads"]

================================================================================
